---- MODULE Spec2Model ----
(***************************************************************************)
(* Market-data acquisition engine of portfolio_tracker:                    *)
(*   MarketDataService (services/market_data.py): in-memory TTL cache,     *)
(*   retrying provider fetches, three-tier current price lookup, gap-fill  *)
(*   of historical series;                                                 *)
(*   PriceCacheService (services/price_cache.py): the durable price store. *)
(*                                                                         *)
(* Units.  Instants (datetime) are whole seconds since day 0, 00:00; a     *)
(* date is a day number; a 'YYYY-MM-DD' string is identified with the day  *)
(* number it denotes.  Prices are tenths of a cent, so that the store's    *)
(* Numeric(20, 2) column visibly rounds.  An Optional value is a sequence: *)
(* <<>> is None and <<v>> is the value v.                                  *)
(***************************************************************************)
EXTENDS Integers, Sequences, FiniteSets, TLC

VARIABLES now,            \* datetime.now(), the wall clock
          memory_cache,   \* MarketDataService._memory_cache
          store,          \* rows of the price_cache table
          slept,          \* seconds spent in time.sleep so far
          last,           \* what the most recent call did and returned
          asset_name_cache, \* MarketDataService._asset_name_cache
          pending         \* the portfolio request being served, <<>> when none

vars == <<now, memory_cache, store, slept, last, asset_name_cache, pending>>

(***************************************************************************)
(* Bounds of the model.                                                    *)
(***************************************************************************)
FirstDay  == 1      \* the service starts at 00:00 of this day; days 0.. are history
MaxOffset == 908    \* the clock stays within this many seconds of that day
NextDay   == 4      \* ... and within this many seconds of the day after
MaxSlept  == 12     \* total seconds of back-off a behaviour may spend

Tickers == {"AAPL", "MSFT"}
Prices  == {1500, 1504}

(***************************************************************************)
(* Program constants.                                                      *)
(***************************************************************************)
max_retries     == 3
base_delay      == 2
CurrentPriceTTL == 900
IntradayTTL     == 60
SecondsPerDay   == 86400

None    == <<>>
Some(v) == <<v>>

DateOf(dt)    == dt \div SecondsPerDay
MinTime(d)    == d * SecondsPerDay
MaxTime(d)    == d * SecondsPerDay + (SecondsPerDay - 1)
DateStr(dt)   == DateOf(dt)
ParseDate(s)  == s

\* close_price = Column(Numeric(20, 2)): what a stored close reads back as
Numeric2(p) == ((p + 5) \div 10) * 10

CacheKey(bucket, ticker) == <<bucket, ticker>>

Restrict(f, S) == [x \in S |-> f[x]]
Put(f, k, v)   == [x \in (DOMAIN f) \cup {k} |-> IF x = k THEN v ELSE f[x]]

(***************************************************************************)
(* The in-memory cache.                                                    *)
(***************************************************************************)
\* variant: the age test the wrong way round
get_from_memory_cache_reversed(mc, key, ttl, t) ==
    IF key \in DOMAIN mc
    THEN IF t - mc[key].timestamp > ttl
         THEN [ret |-> Some(mc[key].data), cache |-> mc, log |-> "HIT"]
         ELSE [ret |-> None, cache |-> Restrict(mc, (DOMAIN mc) \ {key}),
               log |-> "EXPIRED"]
    ELSE [ret |-> None, cache |-> mc, log |-> ""]

\* variant: an entry exactly as old as the TTL still counts as fresh
get_from_memory_cache_inclusive(mc, key, ttl, t) ==
    IF key \in DOMAIN mc
    THEN IF t - mc[key].timestamp <= ttl
         THEN [ret |-> Some(mc[key].data), cache |-> mc, log |-> "HIT"]
         ELSE [ret |-> None, cache |-> Restrict(mc, (DOMAIN mc) \ {key}),
               log |-> "EXPIRED"]
    ELSE [ret |-> None, cache |-> mc, log |-> ""]

\* log: the debug line the lookup writes ("" when it writes none)
get_from_memory_cache(mc, key, ttl, t) ==
    IF key \in DOMAIN mc
    THEN IF t - mc[key].timestamp < ttl
         THEN [ret |-> Some(mc[key].data), cache |-> mc, log |-> "HIT"]
         ELSE [ret |-> None, cache |-> Restrict(mc, (DOMAIN mc) \ {key}),
               log |-> "EXPIRED"]
    ELSE [ret |-> None, cache |-> mc, log |-> ""]

set_memory_cache(mc, key, data, t) ==
    Put(mc, key, [data |-> data, timestamp |-> t])

clear_memory_cache(mc) == Restrict(mc, {})

(***************************************************************************)
(* The price store.  A row is [ticker, date, close_price]; date is the     *)
(* instant the row is filed under.                                         *)
(***************************************************************************)
RowsBetween(st, ticker, lo, hi) ==
    {r \in st : r.ticker = ticker /\ r.date >= lo /\ r.date <= hi}

\* .first() of an unordered query: any one of the matching rows
First(rows) == CHOOSE r \in rows : \A q \in rows : r.date <= q.date

\* variant: the two ends of the day swapped, so that no row matches
get_cached_price_swapped(st, ticker, target_date) ==
    LET rows == RowsBetween(st, ticker, MaxTime(target_date), MinTime(target_date))
    IN  IF rows # {} THEN Some(First(rows).close_price) ELSE None

get_cached_price(st, ticker, target_date) ==
    LET rows == RowsBetween(st, ticker, MinTime(target_date), MaxTime(target_date))
    IN  IF rows # {} THEN Some(First(rows).close_price) ELSE None

get_cached_price_range(st, ticker, start_date, end_date) ==
    LET rows == RowsBetween(st, ticker, MinTime(start_date), MaxTime(end_date))
        keys == {DateStr(r.date) : r \in rows}
        \* result[date_str] = ..., in date order: the latest row of a day wins
        Last(k) == CHOOSE r \in rows : /\ DateStr(r.date) = k
                                       /\ \A q \in rows : DateStr(q.date) = k => q.date <= r.date
    IN  [k \in keys |-> Last(k).close_price]

\* variant: reports success without committing anything
store_price_uncommitted(st, ticker, price_date, close_price, ok) ==
    [ret |-> ok, store |-> st]

\* variant: a write that fails takes the row of the key with it
store_price_dropping(st, ticker, price_date, close_price, ok) ==
    LET price_dt == MinTime(price_date)
        existing == {r \in st : r.ticker = ticker /\ r.date = price_dt}
        row      == [ticker |-> ticker, date |-> price_dt,
                     close_price |-> Numeric2(close_price)]
    IN  IF ~ok
        THEN [ret |-> FALSE, store |-> st \ existing]
        ELSE [ret |-> TRUE, store |-> (st \ existing) \cup {row}]

\* ok = FALSE: the commit raises, the write is rolled back
store_price(st, ticker, price_date, close_price, ok) ==
    LET price_dt == MinTime(price_date)
        existing == {r \in st : r.ticker = ticker /\ r.date = price_dt}
        row      == [ticker |-> ticker, date |-> price_dt,
                     close_price |-> Numeric2(close_price)]
    IN  IF ~ok
        THEN [ret |-> FALSE, store |-> st]
        ELSE IF existing # {}
        THEN LET e == First(existing)
             IN  [ret |-> TRUE,
                  store |-> (st \ {e}) \cup
                            {[e EXCEPT !.close_price = Numeric2(close_price)]}]
        ELSE [ret |-> TRUE, store |-> st \cup {row}]

\* old: the rows whose created_at is before the cutoff, now - days
cleanup_old_cache(st, old) ==
    [ret |-> Cardinality(st \cap old), store |-> st \ old]

\* target_date = None: every row of the ticker
invalidate_cache(st, ticker, target_date) ==
    LET rows == IF target_date # None
                THEN RowsBetween(st, ticker, MinTime(target_date[1]),
                                 MaxTime(target_date[1]))
                ELSE {r \in st : r.ticker = ticker}
    IN  [ret |-> Cardinality(rows), store |-> st \ rows]

(***************************************************************************)
(* The provider (yfinance).  One answer of stock.history(...) is           *)
(* Data(v), Empty (no rows) or Raise (an exception); a script lists the    *)
(* answers the provider gives to the successive attempts of one call.      *)
(***************************************************************************)
Empty   == [kind |-> "empty", value |-> <<>>]
Raise   == [kind |-> "raise", value |-> <<>>]
Data(v) == [kind |-> "data",  value |-> <<v>>]

Attempts == 1..max_retries

\* some failures, then possibly data; the answers after the first one with
\* data are never asked for
Scripts(values) ==
    [Attempts -> {Empty, Raise}] \cup
    UNION {{[i \in Attempts |-> IF i <= k THEN f[i]
                                ELSE IF i = k + 1 THEN Data(v) ELSE Empty] :
               f \in [1..k -> {Empty, Raise}], v \in values} :
           k \in 0..(max_retries - 1)}

HasData(script) == \E i \in Attempts : script[i].kind = "data"

RECURSIVE Pow2(_)
Pow2(n) == IF n = 0 THEN 1 ELSE 2 * Pow2(n - 1)

\* variant: the exponent one too small
Backoff_short(attempt) == IF attempt > 0 THEN base_delay * Pow2(attempt - 1) ELSE 0

\* if attempt > 0: time.sleep(self.base_delay * (2 ** attempt))
Backoff(attempt) == IF attempt > 0 THEN base_delay * Pow2(attempt) ELSE 0

\* what the retry loop leaves in the trace of a call
SleepEvents(attempt) ==
    IF attempt > 0 THEN << <<"sleep", Backoff(attempt)>> >> ELSE <<>>
CallEvent(r) == <<"call", r.kind>>

\* the observation record of a call that has done nothing yet
NoCall == [op |-> "none", ticker |-> "", ret |-> None, series |-> <<>>,
           raised |-> FALSE, cache |-> <<>>, store |-> {}, t |-> 0,
           key |-> <<>>, ttl |-> 0, log |-> "",
           trace |-> <<>>, tiers |-> <<>>, reads |-> 0, writes |-> 0,
           stored |-> {}, request |-> <<>>, delivered |-> <<>>,
           missing |-> <<>>, range |-> <<>>,
           names |-> <<>>, error |-> "", valued |-> <<>>,
           summary |-> <<>>, history |-> <<>>, daily |-> <<>>, index |-> <<>>,
           gain |-> <<>>, events |-> <<>>, thread |-> "none"]

Begin(op, ticker, mc, st, t) ==
    [NoCall EXCEPT !.op = op, !.ticker = ticker,
                   !.cache = mc, !.store = st, !.t = t]

\* one pass through the head of the loop body: sleep, then ask the provider
Attempt(acc, attempt, r) ==
    [acc EXCEPT !.t = acc.t + Backoff(attempt),
                !.trace = acc.trace \o SleepEvents(attempt) \o <<CallEvent(r)>>]

(***************************************************************************)
(* get_current_price, layer 3: the retry loop over the provider.           *)
(***************************************************************************)
RECURSIVE fetch_current_price(_, _, _, _, _)
fetch_current_price(attempt, ticker, script, dbok, acc) ==
    IF attempt >= max_retries
    THEN [acc EXCEPT !.ret = None]
    ELSE LET r    == script[attempt + 1]
             acc1 == Attempt(acc, attempt, r)
         IN  IF r.kind = "data"
             THEN LET current_price == r.value[1]
                      today == DateOf(acc1.t)
                      w == store_price(acc1.store, ticker, today, current_price, dbok)
                  IN  [acc1 EXCEPT
                         !.ret = Some(current_price),
                         !.cache = set_memory_cache(acc1.cache,
                                       CacheKey("current_price", ticker),
                                       current_price, acc1.t),
                         !.store = w.store,
                         !.writes = acc1.writes + 1,
                         !.stored = IF w.ret THEN {today} ELSE {}]
             ELSE IF attempt = max_retries - 1
             THEN [acc1 EXCEPT !.ret = None]
             ELSE fetch_current_price(attempt + 1, ticker, script, dbok, acc1)

get_current_price(mc, st, t, ticker, script, dbok) ==
    LET cache_key == CacheKey("current_price", ticker)
        m == get_from_memory_cache(mc, cache_key, CurrentPriceTTL, t)
        start == [Begin("get_current_price", ticker, mc, st, t)
                    EXCEPT !.log = m.log]
    IN  IF m.ret # None
        THEN [start EXCEPT !.ret = m.ret, !.cache = m.cache,
                           !.tiers = <<"memory">>]
        ELSE LET db_price == get_cached_price(st, ticker, DateOf(t))
             IN  IF db_price # None
                 THEN [start EXCEPT
                         !.ret = db_price,
                         !.cache = set_memory_cache(m.cache, cache_key, db_price[1], t),
                         !.tiers = <<"memory", "store">>,
                         !.reads = 1]
                 ELSE fetch_current_price(0, ticker, script, dbok,
                         [start EXCEPT !.cache = m.cache,
                                       !.tiers = <<"memory", "store", "provider">>,
                                       !.reads = 1])

(***************************************************************************)
(* get_intraday_prices: memory cache (one minute), then the provider.      *)
(* A series is a sequence of closes, one per five-minute bar.              *)
(***************************************************************************)
IntradaySeries == {<<1500>>, <<1500, 1504>>}

RECURSIVE fetch_intraday_prices(_, _, _, _)
fetch_intraday_prices(attempt, ticker, script, acc) ==
    IF attempt >= max_retries
    THEN [acc EXCEPT !.series = <<>>]
    ELSE LET r    == script[attempt + 1]
             acc1 == Attempt(acc, attempt, r)
         IN  IF r.kind = "data"
             THEN LET prices == r.value[1]
                  IN  [acc1 EXCEPT
                         !.series = prices,
                         !.cache = set_memory_cache(acc1.cache,
                                       CacheKey("intraday", ticker),
                                       prices, acc1.t)]
             ELSE IF attempt = max_retries - 1
             THEN [acc1 EXCEPT !.series = <<>>]
             ELSE fetch_intraday_prices(attempt + 1, ticker, script, acc1)

get_intraday_prices(mc, st, t, ticker, script) ==
    LET cache_key == CacheKey("intraday", ticker)
        m == get_from_memory_cache(mc, cache_key, IntradayTTL, t)
        start == [Begin("get_intraday_prices", ticker, mc, st, t)
                    EXCEPT !.log = m.log]
    IN  IF m.ret # None /\ m.ret[1] # <<>>
        THEN [start EXCEPT !.series = m.ret[1], !.cache = m.cache,
                           !.tiers = <<"memory">>]
        ELSE fetch_intraday_prices(0, ticker, script,
                 [start EXCEPT !.cache = m.cache,
                               !.tiers = <<"memory", "provider">>])

(***************************************************************************)
(* get_historical_prices: the provider only.  An observation is            *)
(* [date |-> instant, close |-> price]; the result is Some(list) or None.  *)
(***************************************************************************)
\* variant: an empty answer ends the loop at once
RECURSIVE fetch_historical_prices_once(_, _, _)
fetch_historical_prices_once(attempt, script, acc) ==
    IF attempt >= max_retries
    THEN [acc EXCEPT !.ret = None]
    ELSE LET r    == script[attempt + 1]
             acc1 == Attempt(acc, attempt, r)
         IN  IF r.kind = "data"
             THEN [acc1 EXCEPT !.ret = Some(r.value[1]), !.delivered = r.value[1]]
             ELSE IF r.kind = "empty" \/ attempt = max_retries - 1
             THEN [acc1 EXCEPT !.ret = None]
             ELSE fetch_historical_prices_once(attempt + 1, script, acc1)

RECURSIVE fetch_historical_prices(_, _, _)
fetch_historical_prices(attempt, script, acc) ==
    IF attempt >= max_retries
    THEN [acc EXCEPT !.ret = None]
    ELSE LET r    == script[attempt + 1]
             acc1 == Attempt(acc, attempt, r)
         IN  IF r.kind = "data"
             THEN [acc1 EXCEPT !.ret = Some(r.value[1]), !.delivered = r.value[1]]
             ELSE IF attempt = max_retries - 1
             THEN [acc1 EXCEPT !.ret = None]
             ELSE fetch_historical_prices(attempt + 1, script, acc1)

get_historical_prices(mc, st, t, ticker, start_date, end_date, script) ==
    LET end == IF end_date = None THEN t ELSE end_date[1]
    IN  fetch_historical_prices(0, script,
            [Begin("get_historical_prices", ticker, mc, st, t)
                EXCEPT !.request = <<start_date, end>>,
                       !.tiers = <<"provider">>])

(***************************************************************************)
(* Gap detection and bulk writes of the price store.                       *)
(***************************************************************************)
RECURSIVE AllDates(_, _)
AllDates(current, end_date) ==
    IF current <= end_date
    THEN <<current>> \o AllDates(current + 1, end_date)
    ELSE <<>>

\* variant: the last day of the range is left out
find_missing_dates_exclusive_end(st, ticker, start_date, end_date) ==
    LET cached       == get_cached_price_range(st, ticker, start_date, end_date)
        cached_dates == {ParseDate(d) : d \in DOMAIN cached}
        all_dates    == AllDates(start_date, end_date - 1)
        Missing(d)   == d \notin cached_dates
    IN  SelectSeq(all_dates, Missing)

\* variant: every date of the range is reported, stored or not
find_missing_dates_unfiltered(st, ticker, start_date, end_date) ==
    AllDates(start_date, end_date)

find_missing_dates(st, ticker, start_date, end_date) ==
    LET cached       == get_cached_price_range(st, ticker, start_date, end_date)
        cached_dates == {ParseDate(d) : d \in DOMAIN cached}
        all_dates    == AllDates(start_date, end_date)
        Missing(d)   == d \notin cached_dates
    IN  SelectSeq(all_dates, Missing)

\* variant: the loop ends at the first write that fails
RECURSIVE store_bulk_prices_stopping(_, _, _, _)
store_bulk_prices_stopping(ticker, prices, bad, acc) ==
    IF prices = <<>>
    THEN acc
    ELSE LET price_data == Head(prices)
             price_date == DateOf(price_data.date)
             w == store_price(acc.store, ticker, price_date, price_data.close,
                              price_date \notin bad)
         IN  IF w.ret
             THEN store_bulk_prices_stopping(ticker, Tail(prices), bad,
                      [store |-> w.store,
                       stored_count |-> acc.stored_count + 1,
                       stored |-> acc.stored \cup {price_date}])
             ELSE acc

\* bad: the dates whose write fails; acc = [store, stored_count, stored]
RECURSIVE store_bulk_prices(_, _, _, _)
store_bulk_prices(ticker, prices, bad, acc) ==
    IF prices = <<>>
    THEN acc
    ELSE LET price_data == Head(prices)
             price_date == DateOf(price_data.date)
             w == store_price(acc.store, ticker, price_date, price_data.close,
                              price_date \notin bad)
         IN  store_bulk_prices(ticker, Tail(prices), bad,
                 IF w.ret
                 THEN [store |-> w.store,
                       stored_count |-> acc.stored_count + 1,
                       stored |-> acc.stored \cup {price_date}]
                 ELSE [acc EXCEPT !.store = w.store])

(***************************************************************************)
(* get_historical_prices_series: the stored range, topped up from the      *)
(* provider when a date of the range is missing.  The result is a map      *)
(* from date strings to closes.                                            *)
(***************************************************************************)
\* variant: a date already in the map keeps its stored close
MergeFresh_keep_stored(cached_prices, fresh_prices) ==
    LET fresh_keys == {DateStr(fresh_prices[i].date) : i \in DOMAIN fresh_prices}
        FreshAt(k) == CHOOSE i \in DOMAIN fresh_prices : DateStr(fresh_prices[i].date) = k
    IN  [k \in DOMAIN cached_prices \cup fresh_keys |->
            IF k \in DOMAIN cached_prices THEN cached_prices[k]
            ELSE fresh_prices[FreshAt(k)].close]

\* for p in fresh_prices: cached_prices[date_str] = p['close']
RECURSIVE MergeFresh(_, _)
MergeFresh(cached_prices, fresh_prices) ==
    IF fresh_prices = <<>>
    THEN cached_prices
    ELSE LET p == Head(fresh_prices)
         IN  MergeFresh(Put(cached_prices, DateStr(p.date), p.close),
                        Tail(fresh_prices))

get_historical_prices_series(mc, st, t, ticker, start_date, end_date, script, bad) ==
    LET end == IF end_date = None THEN t ELSE end_date[1]
        cached_prices == get_cached_price_range(st, ticker, DateOf(start_date), DateOf(end))
        missing_dates == find_missing_dates(st, ticker, DateOf(start_date), DateOf(end))
        start == [Begin("get_historical_prices_series", ticker, mc, st, t)
                    EXCEPT !.series = cached_prices, !.missing = missing_dates,
                           !.range = <<DateOf(start_date), DateOf(end)>>,
                           !.reads = 2, !.tiers = <<"store">>]
    IN  IF Len(missing_dates) > 0
        THEN LET f == get_historical_prices(mc, st, t, ticker, start_date,
                                            Some(end), script)
                 fetched == [start EXCEPT !.t = f.t, !.trace = f.trace,
                                          !.request = f.request,
                                          !.tiers = <<"store", "provider">>]
             IN  IF f.ret # None /\ f.ret[1] # <<>>
                 THEN LET fresh_prices == f.ret[1]
                          w == store_bulk_prices(ticker, fresh_prices, bad,
                                   [store |-> st, stored_count |-> 0, stored |-> {}])
                      IN  [fetched EXCEPT
                             !.delivered = fresh_prices,
                             !.store = w.store,
                             !.writes = Len(fresh_prices),
                             !.stored = w.stored,
                             !.series = MergeFresh(cached_prices, fresh_prices)]
                 ELSE fetched
        ELSE start

(***************************************************************************)
(* Actions.                                                                *)
(***************************************************************************)
Offset(t)   == t % SecondsPerDay
InWindow(t) ==
    \/ DateOf(t) = FirstDay /\ Offset(t) <= MaxOffset
    \/ DateOf(t) = FirstDay + 1 /\ Offset(t) <= NextDay

RECURSIVE SumSleeps(_)
SumSleeps(trace) ==
    IF trace = <<>> THEN 0
    ELSE (IF Head(trace)[1] = "sleep" THEN Head(trace)[2] ELSE 0)
         + SumSleeps(Tail(trace))

\* the observation proper: without the fields that only carry the state
Observed(res) == [res EXCEPT !.cache = <<>>, !.store = {}, !.t = 0]

Init ==
    /\ now = MinTime(FirstDay)
    /\ memory_cache = <<>>
    /\ store = {}
    /\ slept = 0
    /\ last = NoCall
    /\ asset_name_cache = <<>>
    /\ pending = <<>>

\* a call returns: its effects become the state, its observation is kept
Return(res) ==
    /\ InWindow(res.t)
    /\ slept + SumSleeps(res.trace) <= MaxSlept
    /\ now' = res.t
    /\ memory_cache' = res.cache
    /\ store' = res.store
    /\ slept' = slept + SumSleeps(res.trace)
    /\ last' = Observed(res)
    /\ UNCHANGED <<asset_name_cache, pending>>

GetCurrentPriceOf(tickers) ==
    \E ticker \in tickers, script \in Scripts(Prices), dbok \in BOOLEAN :
        /\ HasData(script) \/ dbok
        /\ Return(get_current_price(memory_cache, store, now, ticker, script, dbok))

GetCurrentPrice == GetCurrentPriceOf(Tickers)

ClearMemoryCache ==
    /\ memory_cache' = clear_memory_cache(memory_cache)
    /\ last' = [NoCall EXCEPT !.op = "clear_memory_cache"]
    /\ UNCHANGED <<now, store, slept, asset_name_cache, pending>>

\* time passes between calls: to just short of the current-price TTL (the
\* back-off sleeps carry the clock across it), or to the next midnight
Delays == {CurrentPriceTTL - base_delay * 2, SecondsPerDay - Offset(now)}

Advance ==
    \E d \in Delays :
        /\ InWindow(now + d)
        /\ now' = now + d
        /\ last' = NoCall
        /\ UNCHANGED <<memory_cache, store, slept, asset_name_cache, pending>>

Next == GetCurrentPrice \/ ClearMemoryCache \/ Advance

Spec == Init /\ [][Next]_vars

(***************************************************************************)
(* The price_update broadcast of get_current_price (market_data.py         *)
(* 103-114) and the two places it is called from: a request handler, which *)
(* runs on the event loop (api/portfolios.py 158-160), and the background  *)
(* refresh task, which hands the call to a worker thread (main.py 65).     *)
(***************************************************************************)
\* asyncio.get_running_loop() raises RuntimeError in a thread that runs no
\* event loop
get_running_loop(thread) == IF thread = "event_loop" THEN Some("loop") ELSE None

price_update(ticker, current_price, t) ==
    [type |-> "price_update", ticker |-> ticker, price |-> current_price,
     timestamp |-> t]

\* lines 103-114, reached on the branch that got data from the provider
broadcast_price_update(res, thread) ==
    IF (\E i \in DOMAIN res.tiers : res.tiers[i] = "provider") /\ res.ret # None
    THEN IF get_running_loop(thread) # None
         THEN [res EXCEPT !.thread = thread,
                          !.events = <<price_update(res.ticker, res.ret[1], res.t)>>]
         ELSE [res EXCEPT !.thread = thread]
    ELSE [res EXCEPT !.thread = thread]

\* get_current_price as run by the given thread
get_current_price_on(thread, mc, st, t, ticker, script, dbok) ==
    broadcast_price_update(get_current_price(mc, st, t, ticker, script, dbok),
                           thread)

\* api/portfolios.py 158-160: GET /market_data/current_price/{ticker}
GetCurrentPriceForTicker ==
    \E ticker \in Tickers, script \in Scripts(Prices), dbok \in BOOLEAN :
        /\ HasData(script) \/ dbok
        /\ Return(get_current_price_on("event_loop", memory_cache, store, now,
                                       ticker, script, dbok))

\* main.py 45-73: one pass of the loop over the tickers of the holdings
UpdatePricesBackground ==
    \E ticker \in Tickers, script \in Scripts(Prices), dbok \in BOOLEAN :
        /\ HasData(script) \/ dbok
        /\ Return(get_current_price_on("worker", memory_cache, store, now,
                                       ticker, script, dbok))

NextPublish == GetCurrentPriceForTicker \/ UpdatePricesBackground \/ Advance

SpecPublish == Init /\ [][NextPublish]_vars

(***************************************************************************)
(* The three fetchers, called directly.                                    *)
(***************************************************************************)
FetchTickers == {"AAPL"}

GetIntradayPricesOf(tickers) ==
    \E ticker \in tickers, script \in Scripts(IntradaySeries) :
        Return(get_intraday_prices(memory_cache, store, now, ticker, script))

\* the dates a caller asks about: history and today
Days == 0..DateOf(now)

\* what the provider may deliver for a range of days: observations at
\* 00:00 of some of the days, in date order
RECURSIVE ObservationLists(_, _)
ObservationLists(first, lastday) ==
    IF first > lastday THEN {<<>>}
    ELSE LET rest == ObservationLists(first + 1, lastday)
         IN  rest \cup {<<[date |-> MinTime(first), close |-> p]>> \o l :
                           p \in Prices, l \in rest}

Deliveries(first, lastday) == ObservationLists(first, lastday) \ {<<>>}

\* span: how many days after its first day a requested range may end
GetHistoricalPricesOf(tickers, span) ==
    \E ticker \in tickers, d1 \in Days, d2 \in Days :
        /\ d1 <= d2 /\ d2 - d1 <= span
        /\ \E start_date \in {MinTime(d1)},
              end_date \in {None, Some(MinTime(d2))},
              script \in Scripts(Deliveries(d1, d2)) :
                 Return(get_historical_prices(memory_cache, store, now, ticker,
                                              start_date, end_date, script))

\* get_price_at_date asks for one day at a time
OneDay == 0

NextFetch ==
    \/ GetCurrentPriceOf(FetchTickers)
    \/ GetIntradayPricesOf(FetchTickers)
    \/ GetHistoricalPricesOf(FetchTickers, OneDay)
    \/ ClearMemoryCache

SpecFetch == Init /\ [][NextFetch]_vars

(***************************************************************************)
(* The in-memory cache on its own: lookups, writes, clear, passing time.   *)
(***************************************************************************)
Buckets == {"current_price", "intraday"}
TTLOf(bucket) == IF bucket = "intraday" THEN IntradayTTL ELSE CurrentPriceTTL
ValuesOf(bucket) == IF bucket = "intraday" THEN IntradaySeries ELSE Prices

MemoryGet ==
    \E bucket \in Buckets, ticker \in FetchTickers :
        LET key == CacheKey(bucket, ticker)
            m   == get_from_memory_cache(memory_cache, key, TTLOf(bucket), now)
        IN  /\ memory_cache' = m.cache
            /\ last' = [NoCall EXCEPT !.op = "get_from_memory_cache",
                                      !.key = key, !.ttl = TTLOf(bucket),
                                      !.ret = m.ret, !.log = m.log]
            /\ UNCHANGED <<now, store, slept, asset_name_cache, pending>>

MemorySet ==
    \E bucket \in Buckets, ticker \in FetchTickers :
        \E data \in ValuesOf(bucket) :
            LET key == CacheKey(bucket, ticker)
            IN  /\ memory_cache' = set_memory_cache(memory_cache, key, data, now)
                /\ last' = [NoCall EXCEPT !.op = "set_memory_cache", !.key = key]
                /\ UNCHANGED <<now, store, slept, asset_name_cache, pending>>

\* a minute passes, or the rest of a quarter of an hour
Pass ==
    \E d \in {IntradayTTL, CurrentPriceTTL - IntradayTTL} :
        /\ InWindow(now + d)
        /\ now' = now + d
        /\ last' = NoCall
        /\ UNCHANGED <<memory_cache, store, slept, asset_name_cache, pending>>

NextCache == MemoryGet \/ MemorySet \/ ClearMemoryCache \/ Pass

SpecCache == Init /\ [][NextCache]_vars

(***************************************************************************)
(* The price store and the gap-fill of historical series.                  *)
(***************************************************************************)
\* the table already holds the closes of another ticker
InitSeries ==
    /\ now = MinTime(FirstDay)
    /\ memory_cache = <<>>
    /\ store = {[ticker |-> ticker, date |-> MinTime(d), close_price |-> Numeric2(p)] :
                   ticker \in Tickers \ FetchTickers, d \in 0..FirstDay,
                   p \in {CHOOSE q \in Prices : TRUE}}
    /\ slept = 0
    /\ last = NoCall
    /\ asset_name_cache = <<>>
    /\ pending = <<>>

StorePrice ==
    \E ticker \in FetchTickers, price_date \in Days, close_price \in Prices,
       ok \in BOOLEAN :
        LET w == store_price(store, ticker, price_date, close_price, ok)
        IN  /\ store' = w.store
            /\ last' = [NoCall EXCEPT !.op = "store_price", !.ticker = ticker,
                                      !.request = <<price_date, close_price>>,
                                      !.writes = 1,
                                      !.stored = IF w.ret THEN {price_date} ELSE {}]
            /\ UNCHANGED <<now, memory_cache, slept, asset_name_cache, pending>>

FindMissingDates ==
    \E ticker \in Tickers, start_date \in Days, end_date \in Days :
        /\ start_date <= end_date
        /\ last' = [NoCall EXCEPT
                      !.op = "find_missing_dates", !.ticker = ticker,
                      !.range = <<start_date, end_date>>,
                      !.missing = find_missing_dates(store, ticker, start_date, end_date)]
        /\ UNCHANGED <<now, memory_cache, store, slept, asset_name_cache, pending>>

\* the provider answers the first attempt with data, or never
SeriesScripts(values) == {s \in Scripts(values) : s[1].kind # "raise" /\ s[2].kind = "empty"}

DatesOf(script) ==
    IF script[1].kind = "data"
    THEN {DateOf(script[1].value[1][i].date) : i \in DOMAIN script[1].value[1]}
    ELSE {}

GetHistoricalPricesSeries ==
    \E ticker \in FetchTickers, d1 \in Days, d2 \in Days :
        /\ d1 <= d2
        /\ \E start_date \in {MinTime(d1)},
              end_date \in {None, Some(MinTime(d2))},
              script \in SeriesScripts(Deliveries(d1, d2)) :
                 /\ end_date = None => d2 = DateOf(now)
                 /\ \E bad \in {{}} \cup {{d} : d \in DatesOf(script)} :
                       Return(get_historical_prices_series(memory_cache, store,
                                  now, ticker, start_date, end_date, script, bad))

NextSeries == StorePrice \/ FindMissingDates \/ GetHistoricalPricesSeries

SpecSeries == InitSeries /\ [][NextSeries]_vars

(***************************************************************************)
(* Valuation (services/portfolio.py).  Python floats are modelled as exact *)
(* fractions <<n, d>> in lowest terms with d > 0.                          *)
(***************************************************************************)
RECURSIVE Gcd(_, _)
Gcd(a, b) == IF b = 0 THEN a ELSE Gcd(b, a % b)

Abs(x) == IF x < 0 THEN -x ELSE x

Frac(n, d) ==
    LET g == Gcd(Abs(n), Abs(d))
        s == IF d < 0 THEN -1 ELSE 1
    IN  <<(s * n) \div g, (s * d) \div g>>

Float(i)   == <<i, 1>>
Add(a, b)  == Frac(a[1] * b[2] + b[1] * a[2], a[2] * b[2])
Sub(a, b)  == Frac(a[1] * b[2] - b[1] * a[2], a[2] * b[2])
Mul(a, b)  == Frac(a[1] * b[1], a[2] * b[2])
Div(a, b)  == Frac(a[1] * b[2], a[2] * b[1])
Neg(a)     == <<-a[1], a[2]>>
Less(a, b) == a[1] * b[2] < b[1] * a[2]

(***************************************************************************)
(* A Holding has the attributes its class declares: initial_investment in  *)
(* models/database.py, starting_price where api/portfolios.py builds one.  *)
(* Reading an attribute the object does not have raises AttributeError.    *)
(***************************************************************************)
Schemas == {{"initial_investment"}, {"starting_price"}}

HasAttr(holding, name) == name \in holding.attrs

(***************************************************************************)
(* get_asset_name: the cached name, else the provider's longName, else     *)
(* the ticker; what was returned is cached.                                *)
(***************************************************************************)
Info(longName) == [kind |-> "info", longName |-> longName]

\* variant: a failed lookup returns nothing instead of the ticker
get_asset_name_none(names, ticker, answer) ==
    IF ticker \in DOMAIN names
    THEN [ret |-> names[ticker], names |-> names, asked |-> FALSE]
    ELSE LET name == IF answer.kind = "info" /\ answer.longName # None
                     THEN answer.longName[1] ELSE ""
         IN  [ret |-> name, names |-> Put(names, ticker, name), asked |-> TRUE]

\* variant: the fallback is returned but not remembered
get_asset_name_forgetful(names, ticker, answer) ==
    IF ticker \in DOMAIN names
    THEN [ret |-> names[ticker], names |-> names, asked |-> FALSE]
    ELSE IF answer.kind = "info" /\ answer.longName # None
    THEN [ret |-> answer.longName[1],
          names |-> Put(names, ticker, answer.longName[1]), asked |-> TRUE]
    ELSE [ret |-> ticker, names |-> names, asked |-> TRUE]

get_asset_name(names, ticker, answer) ==
    IF ticker \in DOMAIN names
    THEN [ret |-> names[ticker], names |-> names, asked |-> FALSE]
    ELSE LET name == IF answer.kind = "info" /\ answer.longName # None
                     THEN answer.longName[1] ELSE ticker
         IN  [ret |-> name, names |-> Put(names, ticker, name), asked |-> TRUE]

(***************************************************************************)
(* get_price_at_date: the first close of [date, date + 1 day).             *)
(***************************************************************************)
get_price_at_date(mc, st, t, ticker, date, script) ==
    LET end_date == date + SecondsPerDay
        h == get_historical_prices(mc, st, t, ticker, date, Some(end_date), script)
    IN  [h EXCEPT !.op = "get_price_at_date",
                  !.ret = IF h.ret # None /\ Len(h.ret[1]) > 0
                          THEN Some(h.ret[1][1].close) ELSE None]

(***************************************************************************)
(* calculate_percentage_change (test_trade_logic.py): the change of a      *)
(* holding as the repository's trade-logic script computes it.             *)
(***************************************************************************)
calculate_percentage_change(initial_price, current_price, trade_type) ==
    IF initial_price = 0
    THEN Float(0)
    ELSE LET percentage_change ==
                 Mul(Div(Sub(Float(current_price), Float(initial_price)),
                         Float(initial_price)), Float(100))
         IN  IF trade_type = "sell" THEN Neg(percentage_change)
             ELSE percentage_change

(***************************************************************************)
(* compute_portfolio_summary.  One holding is valued from its current      *)
(* price and the price on its purchase date; trade_type is not read.       *)
(***************************************************************************)
Unvalued == [raised |-> "", percentage_change |-> Float(0),
             current_value |-> Float(0), divided |-> FALSE]

\* variant: the zero test on the purchase price forgotten
valuation_unguarded(holding, current_price, initial_price_per_unit) ==
    IF current_price = None
    THEN IF HasAttr(holding, "initial_investment")
         THEN [Unvalued EXCEPT !.current_value = Float(holding.cost)]
         ELSE [Unvalued EXCEPT !.raised = "AttributeError"]
    ELSE IF ~HasAttr(holding, "starting_price")
    THEN [Unvalued EXCEPT !.raised = "AttributeError"]
    ELSE IF initial_price_per_unit = None
    THEN [Unvalued EXCEPT !.current_value = Float(holding.cost)]
    ELSE IF initial_price_per_unit[1] = 0
    THEN [Unvalued EXCEPT !.raised = "ZeroDivisionError", !.divided = TRUE]
    ELSE LET c   == Float(current_price[1])
             p   == Float(initial_price_per_unit[1])
             pct == Mul(Div(Sub(c, p), p), Float(100))
         IN  [Unvalued EXCEPT
                !.percentage_change = pct,
                !.current_value = Mul(Float(holding.cost),
                                      Add(Float(1), Div(pct, Float(100)))),
                !.divided = TRUE]

valuation(holding, current_price, initial_price_per_unit) ==
    IF current_price = None
    THEN IF HasAttr(holding, "initial_investment")
         THEN [Unvalued EXCEPT !.current_value = Float(holding.cost)]
         ELSE [Unvalued EXCEPT !.raised = "AttributeError"]
    ELSE IF ~HasAttr(holding, "starting_price")
    THEN [Unvalued EXCEPT !.raised = "AttributeError"]
    ELSE IF initial_price_per_unit = None \/ initial_price_per_unit[1] = 0
    THEN [Unvalued EXCEPT !.current_value = Float(holding.cost)]
    ELSE LET c   == Float(current_price[1])
             p   == Float(initial_price_per_unit[1])
             pct == Mul(Div(Sub(c, p), p), Float(100))
         IN  [Unvalued EXCEPT
                !.percentage_change = pct,
                !.current_value = Mul(Float(holding.cost),
                                      Add(Float(1), Div(pct, Float(100)))),
                !.divided = TRUE]

\* allocation_map keeps its keys in insertion order
IndexOf(allocation_map, ticker) ==
    IF \E i \in DOMAIN allocation_map : allocation_map[i].ticker = ticker
    THEN CHOOSE i \in DOMAIN allocation_map : allocation_map[i].ticker = ticker
    ELSE 0

\* variant: a later holding of a ticker replaces the ticker's value
allocate_overwriting(allocation_map, ticker, asset_name, current_value, asset_type) ==
    LET i == IndexOf(allocation_map, ticker)
    IN  IF i > 0
        THEN [allocation_map EXCEPT ![i].value = current_value]
        ELSE Append(allocation_map, [ticker |-> ticker, name |-> asset_name,
                                     value |-> current_value, type |-> asset_type])

allocate(allocation_map, ticker, asset_name, current_value, asset_type) ==
    LET i == IndexOf(allocation_map, ticker)
    IN  IF i > 0
        THEN [allocation_map EXCEPT ![i].value = Add(@, current_value)]
        ELSE Append(allocation_map, [ticker |-> ticker, name |-> asset_name,
                                     value |-> current_value, type |-> asset_type])

\* variant: an entry goes in front of the entries of equal value
InsertByValue_unstable(sorted, e) ==
    LET before == {i \in DOMAIN sorted : Less(e.value, sorted[i].value)}
        k      == Cardinality(before)
    IN  SubSeq(sorted, 1, k) \o <<e>> \o SubSeq(sorted, k + 1, Len(sorted))

\* sorted(..., key=value, reverse=True): stable, equal values keep their order
InsertByValue(sorted, e) ==
    LET before == {i \in DOMAIN sorted : ~Less(sorted[i].value, e.value)}
        k      == Cardinality(before)
    IN  SubSeq(sorted, 1, k) \o <<e>> \o SubSeq(sorted, k + 1, Len(sorted))

RECURSIVE SortedByValueDesc(_, _)
SortedByValueDesc(entries, sorted) ==
    IF entries = <<>> THEN sorted
    ELSE SortedByValueDesc(Tail(entries), InsertByValue(sorted, Head(entries)))

\* the loop body of compute_portfolio_summary for one holding; env holds
\* the provider's answers per ticker
\* lines 107-133: the holding joins the response and the allocation
report_holding(fetched, holding, cp, ip, v, n) ==
    [fetched EXCEPT
       !.names = n.names,
       !.total_current_value = Add(@, v.current_value),
       !.total_initial_investment = Add(@, Float(holding.cost)),
       !.valued = Append(@, [current_price |-> cp.ret,
                             initial_price_per_unit |-> ip.ret,
                             percentage_change |-> v.percentage_change,
                             current_value |-> v.current_value,
                             divided |-> v.divided]),
       !.calculated_holdings = Append(@,
           [id |-> holding.id,
            portfolio_id |-> holding.portfolio_id,
            ticker |-> holding.ticker,
            starting_price |-> Float(holding.cost),
            purchase_date |-> holding.purchase_date,
            asset_type |-> holding.asset_type,
            current_price |-> cp.ret,
            percentage_change |-> v.percentage_change,
            trade_type |-> "buy",
            asset_info |-> [name |-> n.ret, type |-> holding.asset_type]]),
       !.allocation_map = allocate(@, holding.ticker, n.ret, v.current_value,
                                   holding.asset_type)]

\* lines 103-107: the totals, then the name
add_holding(fetched, holding, env, cp, ip, v) ==
    IF v.raised # ""
    THEN [fetched EXCEPT !.raised = v.raised]
    ELSE IF ~HasAttr(holding, "starting_price")
    THEN [fetched EXCEPT !.raised = "AttributeError"]
    ELSE report_holding(fetched, holding, cp, ip, v,
             get_asset_name(fetched.names, holding.ticker,
                            env.names[holding.ticker]))

\* lines 30-101: the holding is valued from the two prices
value_holding(acc, holding, env, cp, ip) ==
    add_holding([acc EXCEPT !.cache = ip.cache, !.store = ip.store, !.t = ip.t,
                            !.trace = acc.trace \o cp.trace \o ip.trace],
                holding, env, cp, ip, valuation(holding, cp.ret, ip.ret))

\* lines 30-93: the price on the purchase date is asked for when there is
\* a current price
price_holding(acc, holding, env, cp) ==
    value_holding(acc, holding, env, cp,
        IF cp.ret = None
        THEN [cp EXCEPT !.trace = <<>>]
        ELSE get_price_at_date(cp.cache, cp.store, cp.t, holding.ticker,
                               holding.purchase_date,
                               env.purchase[holding.ticker]))

summarise_holding(acc, holding, env) ==
    price_holding(acc, holding, env,
        get_current_price(acc.cache, acc.store, acc.t, holding.ticker,
                          env.current[holding.ticker], TRUE))

RECURSIVE summarise(_, _, _)
summarise(acc, holdings, env) ==
    IF holdings = <<>> \/ acc.raised # ""
    THEN acc
    ELSE summarise(summarise_holding(acc, Head(holdings), env), Tail(holdings), env)

\* list(allocation_map.values()): the entries without their keys
AllocationValues(entries) ==
    [i \in DOMAIN entries |-> [name |-> entries[i].name, value |-> entries[i].value,
                               type |-> entries[i].type]]

\* variant: the change of the total taken against the current value
total_percentage_change_of_current(total_current_value, total_initial_investment) ==
    IF Less(Float(0), total_initial_investment)
    THEN Mul(Div(Sub(total_current_value, total_initial_investment),
                 total_current_value), Float(100))
    ELSE Float(0)

total_percentage_change(total_current_value, total_initial_investment) ==
    IF Less(Float(0), total_initial_investment)
    THEN Mul(Div(Sub(total_current_value, total_initial_investment),
                 total_initial_investment), Float(100))
    ELSE Float(0)

\* with_service = FALSE: the call passes the list of holdings alone, and the
\* missing positional argument raises TypeError before the body runs
\* lines 135-145: the response, or the exception of the loop
summary_of(start, holdings, acc) ==
    LET done == [start EXCEPT !.cache = acc.cache, !.store = acc.store,
                              !.t = acc.t, !.names = acc.names,
                              !.trace = acc.trace, !.valued = acc.valued]
    IN  IF acc.raised # ""
        THEN [done EXCEPT !.raised = TRUE, !.error = acc.raised]
        ELSE [done EXCEPT !.summary = Some(
                [portfolio_id |-> IF holdings # <<>> THEN holdings[1].portfolio_id
                                  ELSE "",
                 total_current_value |-> acc.total_current_value,
                 total_percentage_change |->
                     total_percentage_change(acc.total_current_value,
                                             acc.total_initial_investment),
                 holdings |-> acc.calculated_holdings,
                 allocation |-> AllocationValues(
                                   SortedByValueDesc(acc.allocation_map, <<>>))])]

compute_portfolio_summary(mc, st, t, names, holdings, with_service, env) ==
    LET start == [Begin("compute_portfolio_summary", "", mc, st, t)
                    EXCEPT !.names = names]
    IN  IF ~with_service
        THEN [start EXCEPT !.raised = TRUE, !.error = "TypeError"]
        ELSE summary_of(start, holdings,
                 summarise([cache |-> mc, store |-> st, t |-> t, names |-> names,
                            trace |-> <<>>, raised |-> "",
                            total_current_value |-> Float(0),
                            total_initial_investment |-> Float(0),
                            valued |-> <<>>, calculated_holdings |-> <<>>,
                            allocation_map |-> <<>>],
                           holdings, env))

(***************************************************************************)
(* A summary request: the holdings of a portfolio as loaded from the       *)
(* database and, per ticker, what the provider will answer while the       *)
(* request is served.                                                      *)
(***************************************************************************)
MaxHoldings == 2

Costs       == {0, 100000}
TradeTypes  == {"buy", "sell"}
PurchaseDay == 0
LongName(ticker) == IF ticker = "AAPL" THEN "Apple Inc." ELSE "Microsoft Corporation"

AtOnce(v) == [i \in Attempts |-> IF i = 1 THEN Data(v) ELSE Empty]
Never     == [i \in Attempts |-> Empty]

CurrentScripts  == {Never, AtOnce(110000)}
PurchaseScripts ==
    {Never} \cup {AtOnce(<<[date |-> MinTime(PurchaseDay), close |-> c]>>) :
                     c \in {0, 100000}}
NameAnswers(ticker) == {Info(Some(LongName(ticker))), Info(None), Raise}

(***************************************************************************)
(* get_asset_name called directly, beside the fetchers and the clearing of *)
(* the memory cache.                                                       *)
(***************************************************************************)
\* the provider may also come to report another long name
Renamed(ticker) == IF ticker = "AAPL" THEN "Apple" ELSE "Microsoft"

LaterNameAnswers(ticker) == NameAnswers(ticker) \cup {Info(Some(Renamed(ticker)))}

GetAssetNameOf(tickers) ==
    \E ticker \in tickers : \E answer \in LaterNameAnswers(ticker) :
        LET r == get_asset_name(asset_name_cache, ticker, answer)
        IN  /\ asset_name_cache' = r.names
            /\ last' = [NoCall EXCEPT
                           !.op = "get_asset_name", !.ticker = ticker,
                           !.ret = Some(r.ret),
                           !.trace = IF r.asked THEN <<CallEvent(answer)>> ELSE <<>>,
                           !.delivered = IF r.asked THEN <<answer>> ELSE <<>>,
                           !.tiers = IF r.asked THEN <<"memory", "provider">>
                                                ELSE <<"memory">>]
            /\ UNCHANGED <<now, memory_cache, store, slept, pending>>

GetAssetName == GetAssetNameOf(Tickers)

NextNames == GetAssetName \/ ClearMemoryCache \/ Advance

SpecNames == Init /\ [][NextNames]_vars

\* the reads of the four buckets, with a provider that answers at once
ReadCurrentPrice ==
    \E ticker \in FetchTickers, p \in Prices, dbok \in BOOLEAN :
        Return(get_current_price(memory_cache, store, now, ticker, AtOnce(p), dbok))

ReadIntradayPrices ==
    \E ticker \in FetchTickers, series \in IntradaySeries :
        Return(get_intraday_prices(memory_cache, store, now, ticker, AtOnce(series)))

ReadHistoricalPrices ==
    \E ticker \in FetchTickers, p \in Prices :
        Return(get_historical_prices(memory_cache, store, now, ticker,
                   MinTime(DateOf(now)), None,
                   AtOnce(<<[date |-> MinTime(DateOf(now)), close |-> p]>>)))

ReadAssetName == GetAssetNameOf(FetchTickers)

NextClear ==
    \/ ReadCurrentPrice
    \/ ReadIntradayPrices
    \/ ReadHistoricalPrices
    \/ ReadAssetName
    \/ ClearMemoryCache

SpecClear == Init /\ [][NextClear]_vars

(***************************************************************************)
(* Writes to the store that fail, in store_price, in store_bulk_prices and *)
(* under the two requests that write what they fetched.                    *)
(***************************************************************************)
\* price_cache.py 181-221, called directly; missing records the dates whose
\* commit fails
StoreBulkPrices ==
    \E ticker \in FetchTickers, prices \in Deliveries(0, FirstDay),
       bad \in SUBSET (0..FirstDay) :
        LET w == store_bulk_prices(ticker, prices, bad,
                     [store |-> store, stored_count |-> 0, stored |-> {}])
        IN  /\ store' = w.store
            /\ last' = [NoCall EXCEPT
                           !.op = "store_bulk_prices", !.ticker = ticker,
                           !.delivered = prices, !.writes = Len(prices),
                           !.missing = bad,
                           !.stored = w.stored, !.ret = Some(w.stored_count)]
            /\ UNCHANGED <<now, memory_cache, slept, asset_name_cache, pending>>

\* get_current_price with a provider that answers at once; delivered is
\* what the provider has to say
FetchCurrentPrice ==
    \E ticker \in FetchTickers, p \in Prices, dbok \in BOOLEAN :
        Return([get_current_price(memory_cache, store, now, ticker, AtOnce(p), dbok)
                   EXCEPT !.delivered = <<p>>])

NextWrites ==
    \/ StorePrice
    \/ StoreBulkPrices
    \/ FetchCurrentPrice
    \/ GetHistoricalPricesSeries
    \/ ClearMemoryCache

SpecWrites == InitSeries /\ [][NextWrites]_vars

(***************************************************************************)
(* Series over a calendar with a day on which the market is closed.  The   *)
(* provider's history has no observation dated on such a day; the          *)
(* history(period='1d') of get_current_price answers with the last close   *)
(* whatever the day, and the service files it under today's date           *)
(* (market_data.py 88-101).                                                *)
(***************************************************************************)
\* the service starts on a day without trading
NonTradingDays == {FirstDay}

TradingDeliveries(first, lastday) ==
    {l \in Deliveries(first, lastday) :
        \A i \in DOMAIN l : DateOf(l[i].date) \notin NonTradingDays}

GetSeriesOverCalendar ==
    \E ticker \in FetchTickers, d1 \in Days, d2 \in Days :
        /\ d1 <= d2
        /\ \E script \in SeriesScripts(TradingDeliveries(d1, d2)) :
              Return(get_historical_prices_series(memory_cache, store, now,
                         ticker, MinTime(d1), Some(MinTime(d2)), script, {}))

NextCalendar == GetSeriesOverCalendar \/ FetchCurrentPrice \/ StorePrice

SpecCalendar == InitSeries /\ [][NextCalendar]_vars

(***************************************************************************)
(* A day on which the store already holds today's close of the ticker:     *)
(* get_current_price, the passing of time, the clearing of the memory      *)
(* cache, and a series request that reaches back to a day not yet stored.  *)
(***************************************************************************)
\* the close of today's row at the start, as the table holds it
StoredFirst == Numeric2(CHOOSE p \in Prices : TRUE)

\* state after a get_current_price that fetched and stored today's close:
\* the memory entry holds the provider's float, is gone, or is a quarter old
InitSticky ==
    /\ now \in {MinTime(FirstDay), MinTime(FirstDay) + CurrentPriceTTL}
    /\ memory_cache \in
          {<<>>} \cup
          {Put(<<>>, CacheKey("current_price", ticker),
               [data |-> p, timestamp |-> MinTime(FirstDay)]) :
              ticker \in FetchTickers,
              p \in {q \in Prices : Numeric2(q) = StoredFirst}}
    /\ store = {[ticker |-> ticker, date |-> MinTime(FirstDay),
                 close_price |-> StoredFirst] : ticker \in FetchTickers}
    /\ slept = 0
    /\ last = NoCall
    /\ asset_name_cache = <<>>
    /\ pending = <<>>

GetCurrentPriceStored == GetCurrentPriceOf(FetchTickers)

\* a series from day 0 to now: the provider's closes of the range, today's
\* among them
RefetchSeries ==
    \E ticker \in FetchTickers, p \in {1650, 1800} :
        Return(get_historical_prices_series(memory_cache, store, now, ticker,
                   MinTime(0), None,
                   AtOnce(<<[date |-> MinTime(0), close |-> p],
                            [date |-> MinTime(DateOf(now)), close |-> p]>>),
                   {}))

NextSticky == GetCurrentPriceStored \/ RefetchSeries \/ Pass \/ ClearMemoryCache

SpecSticky == InitSticky /\ [][NextSticky]_vars

(***************************************************************************)
(* Two calls of store_price at once, each with a session of its own        *)
(* (price_cache.py 134-137).  A call queries the key, then adds or updates *)
(* the row and commits; the table has UniqueConstraint('ticker', 'date')   *)
(* (database.py 76-86), so the commit of an insert fails when a row of the *)
(* key has been committed since the query.                                 *)
(***************************************************************************)
\* is_new: the key had no row when the call was made; order: the position
\* of the call's commit among the commits
Writer(ticker, price_date, close_price, st) ==
    [op |-> "store_price", ticker |-> ticker, price_date |-> price_date,
     close_price |-> close_price, pc |-> "query", existing |-> None,
     ret |-> None, order |-> 0,
     is_new |-> \A r \in st : ~(r.ticker = ticker /\ r.date = MinTime(price_date))]

Committed == Cardinality({k \in DOMAIN pending : pending[k].pc = "done"})

\* lines 144-149: existing = db.query(PriceCache).filter(...).first()
QueryExisting(i) ==
    /\ pending[i].pc = "query"
    /\ LET rows == {r \in store : /\ r.ticker = pending[i].ticker
                                   /\ r.date = MinTime(pending[i].price_date)}
       IN  pending' = [pending EXCEPT
                         ![i].pc = "write",
                         ![i].existing = IF rows # {} THEN Some(First(rows)) ELSE None]
    /\ UNCHANGED <<now, memory_cache, store, slept, last, asset_name_cache>>

\* lines 151-175: update or add, commit; an exception rolls back and the
\* call returns False
CommitWrite(i) ==
    /\ pending[i].pc = "write"
    /\ LET w == pending[i]
           price_dt == MinTime(w.price_date)
           taken == {r \in store : r.ticker = w.ticker /\ r.date = price_dt}
           row == [ticker |-> w.ticker, date |-> price_dt,
                   close_price |-> Numeric2(w.close_price)]
       IN  IF w.existing # None
           THEN /\ store' = (store \ taken) \cup {row}
                /\ pending' = [pending EXCEPT ![i].pc = "done",
                                  ![i].ret = Some(TRUE),
                                  ![i].order = Committed + 1]
           ELSE IF taken # {}
           THEN /\ store' = store
                /\ pending' = [pending EXCEPT ![i].pc = "done",
                                  ![i].ret = Some(FALSE),
                                  ![i].order = Committed + 1]
           ELSE /\ store' = store \cup {row}
                /\ pending' = [pending EXCEPT ![i].pc = "done",
                                  ![i].ret = Some(TRUE),
                                  ![i].order = Committed + 1]
    /\ UNCHANGED <<now, memory_cache, slept, last, asset_name_cache>>

InitUpsert ==
    /\ now = MinTime(FirstDay)
    /\ memory_cache = <<>>
    /\ store \in {{}, {[ticker |-> ticker, date |-> MinTime(d),
                        close_price |-> Numeric2(p)] :
                           ticker \in Tickers \ FetchTickers, d \in 0..FirstDay,
                           p \in {CHOOSE q \in Prices : TRUE}}}
    /\ slept = 0
    /\ last = NoCall
    /\ asset_name_cache = <<>>
    /\ \E t1 \in Tickers, t2 \in Tickers, d1 \in 0..FirstDay, d2 \in 0..FirstDay,
          p1 \in {1500, 1650}, p2 \in {1500, 1650} :
             pending = <<Writer(t1, d1, p1, store), Writer(t2, d2, p2, store)>>

NextUpsert == \E i \in 1..2 : QueryExisting(i) \/ CommitWrite(i)

SpecUpsert == InitUpsert /\ [][NextUpsert]_vars

(***************************************************************************)
(* Two threads in get_current_price at once.  self.lock is created in      *)
(* __init__ (market_data.py 18) and acquired nowhere, so the statements of *)
(* _get_from_memory_cache (market_data.py 30-41) of one thread interleave  *)
(* with those of the other.  pending holds each thread's call: its ticker, *)
(* the statement it is at (pc), the entry it has read and what it returns. *)
(***************************************************************************)
Worker(ticker) ==
    [op |-> "get_current_price", ticker |-> ticker, pc |-> "contains",
     entry |-> <<>>, ret |-> None, error |-> ""]

At(i, pc) == i \in DOMAIN pending /\ pending[i].pc = pc

Goto(i, pc) == pending' = [pending EXCEPT ![i].pc = pc]

\* line 32: if key in self._memory_cache
Contains(i) ==
    /\ At(i, "contains")
    /\ IF CacheKey("current_price", pending[i].ticker) \in DOMAIN memory_cache
       THEN Goto(i, "load")
       ELSE Goto(i, "miss")
    /\ UNCHANGED <<now, memory_cache, store, slept, last, asset_name_cache>>

\* line 33: entry = self._memory_cache[key]
Load(i) ==
    /\ At(i, "load")
    /\ LET key == CacheKey("current_price", pending[i].ticker)
       IN  IF key \in DOMAIN memory_cache
           THEN pending' = [pending EXCEPT ![i].pc = "test",
                                           ![i].entry = <<memory_cache[key]>>]
           ELSE pending' = [pending EXCEPT ![i].pc = "raised",
                                           ![i].error = "KeyError"]
    /\ UNCHANGED <<now, memory_cache, store, slept, last, asset_name_cache>>

\* lines 34-36: the age test, and the return of a fresh entry
Test(i) ==
    /\ At(i, "test")
    /\ IF now - pending[i].entry[1].timestamp < CurrentPriceTTL
       THEN pending' = [pending EXCEPT ![i].pc = "done",
                                       ![i].ret = Some(pending[i].entry[1].data)]
       ELSE Goto(i, "evict")
    /\ UNCHANGED <<now, memory_cache, store, slept, last, asset_name_cache>>

\* line 39: del self._memory_cache[key]
Evict(i) ==
    /\ At(i, "evict")
    /\ LET key == CacheKey("current_price", pending[i].ticker)
       IN  IF key \in DOMAIN memory_cache
           THEN /\ memory_cache' = Restrict(memory_cache, (DOMAIN memory_cache) \ {key})
                /\ Goto(i, "miss")
           ELSE /\ pending' = [pending EXCEPT ![i].pc = "raised",
                                              ![i].error = "KeyError"]
                /\ UNCHANGED memory_cache
    /\ UNCHANGED <<now, store, slept, last, asset_name_cache>>

\* market_data.py 71-116 after a miss: the store's close of today, else
\* the provider's price, is put into the memory cache and returned
Miss(i) ==
    /\ At(i, "miss")
    /\ \E p \in Prices :
          LET ticker   == pending[i].ticker
              key      == CacheKey("current_price", ticker)
              db_price == get_cached_price(store, ticker, DateOf(now))
              res      == fetch_current_price(0, ticker, AtOnce(p), TRUE,
                              Begin("get_current_price", ticker, memory_cache,
                                    store, now))
          IN  IF db_price # None
              THEN /\ memory_cache' = set_memory_cache(memory_cache, key,
                                                       db_price[1], now)
                   /\ pending' = [pending EXCEPT ![i].pc = "done",
                                                 ![i].ret = db_price]
                   /\ UNCHANGED store
              ELSE /\ memory_cache' = res.cache
                   /\ store' = res.store
                   /\ pending' = [pending EXCEPT ![i].pc = "done",
                                                 ![i].ret = res.ret]
    /\ UNCHANGED <<now, slept, last, asset_name_cache>>

\* the table before the two calls: an entry per ticker, written a TTL ago
\* or just now, or none
EntryAges == {CurrentPriceTTL, 0}

InitThreads ==
    /\ now = MinTime(FirstDay) + CurrentPriceTTL
    /\ \E held \in SUBSET Tickers, age \in EntryAges :
          memory_cache = [key \in {CacheKey("current_price", k) : k \in held} |->
                             [data |-> 1500, timestamp |-> now - age]]
    /\ store = {}
    /\ slept = 0
    /\ last = NoCall
    /\ asset_name_cache = <<>>
    /\ pending \in {<<Worker(a), Worker(b)>> : a \in Tickers, b \in Tickers}

NextThreads ==
    \E i \in 1..2 : Contains(i) \/ Load(i) \/ Test(i) \/ Evict(i) \/ Miss(i)

SpecThreads == InitThreads /\ [][NextThreads]_vars

(***************************************************************************)
(* The price store with the volume of each row (models/database.py 76-86,  *)
(* price_cache.py 113-221).  A row is [ticker, date, close_price, volume]; *)
(* volume is None where the column is NULL.                                *)
(***************************************************************************)
\* variant: always inserts
store_price_with_volume_inserting(st, ticker, price_date, close_price, volume, ok) ==
    IF ~ok
    THEN [ret |-> FALSE, store |-> st]
    ELSE [ret |-> TRUE,
          store |-> st \cup {[ticker |-> ticker, date |-> MinTime(price_date),
                              close_price |-> Numeric2(close_price),
                              volume |-> volume]}]

\* price_cache.py 113-179; ok = FALSE: the commit raises, the write is
\* rolled back
store_price_with_volume(st, ticker, price_date, close_price, volume, ok) ==
    LET price_dt == MinTime(price_date)
        existing == {r \in st : r.ticker = ticker /\ r.date = price_dt}
    IN  IF ~ok
        THEN [ret |-> FALSE, store |-> st]
        ELSE IF existing # {}
        THEN LET e == First(existing)
             IN  [ret |-> TRUE,
                  store |-> (st \ {e}) \cup
                            {[e EXCEPT !.close_price = Numeric2(close_price),
                                       !.volume = IF volume # None THEN volume ELSE @]}]
        ELSE [ret |-> TRUE,
              store |-> st \cup {[ticker |-> ticker, date |-> price_dt,
                                  close_price |-> Numeric2(close_price),
                                  volume |-> volume]}]

\* price_cache.py 181-221; bad: the dates whose write fails;
\* acc = [store, stored_count]
RECURSIVE store_bulk_prices_with_volume(_, _, _, _)
store_bulk_prices_with_volume(ticker, prices, bad, acc) ==
    IF prices = <<>>
    THEN acc
    ELSE LET price_data == Head(prices)
             price_date == DateOf(price_data.date)
             w == store_price_with_volume(acc.store, ticker, price_date,
                      price_data.close, price_data.volume, price_date \notin bad)
         IN  store_bulk_prices_with_volume(ticker, Tail(prices), bad,
                 [store |-> w.store,
                  stored_count |-> acc.stored_count + (IF w.ret THEN 1 ELSE 0)])

StoreDays    == 0..FirstDay
StoreCloses  == {1500, 1504}
StoreVolumes == {None, Some(20)}
MaxBulk      == 2

\* the price_data of a bulk write, at most MaxBulk of them
BulkData ==
    [date : {MinTime(d) : d \in StoreDays}, close : {1650},
     volume : StoreVolumes]

BulkLists == UNION {[1..n -> BulkData] : n \in 0..MaxBulk}

\* a call of store_price; missing records the dates whose commit failed
StorePriceWithVolume ==
    \E ticker \in Tickers, d \in StoreDays, close_price \in StoreCloses,
       volume \in StoreVolumes, ok \in BOOLEAN :
        LET w == store_price_with_volume(store, ticker, d, close_price, volume, ok)
        IN  /\ store' = w.store
            /\ last' = [NoCall EXCEPT
                           !.op = "store_price", !.ticker = ticker,
                           !.request = <<[date |-> MinTime(d), close |-> close_price,
                                          volume |-> volume]>>,
                           !.missing = IF ok THEN {} ELSE {d},
                           !.ret = Some(w.ret)]
            /\ UNCHANGED <<now, memory_cache, slept, asset_name_cache, pending>>

StoreBulkPricesWithVolume ==
    \E ticker \in FetchTickers, prices \in BulkLists, bad \in SUBSET {0} :
        LET w == store_bulk_prices_with_volume(ticker, prices, bad,
                     [store |-> store, stored_count |-> 0])
        IN  /\ store' = w.store
            /\ last' = [NoCall EXCEPT
                           !.op = "store_bulk_prices", !.ticker = ticker,
                           !.request = prices, !.missing = bad,
                           !.ret = Some(w.stored_count)]
            /\ UNCHANGED <<now, memory_cache, slept, asset_name_cache, pending>>

NextStore == StorePriceWithVolume \/ StoreBulkPricesWithVolume

SpecStore == Init /\ [][NextStore]_vars

\* at most one ticker's name lookup goes wrong
NameEnvs ==
    {names \in [Tickers -> UNION {NameAnswers(k) : k \in Tickers}] :
        /\ \A k \in Tickers : names[k] \in NameAnswers(k)
        /\ Cardinality({k \in Tickers : names[k] # Info(Some(LongName(k)))}) <= 1}

Envs == [current : [Tickers -> CurrentScripts],
         purchase : [Tickers -> PurchaseScripts],
         names : NameEnvs]

Holdings(attrs) ==
    [id : {0}, portfolio_id : {"P1"}, ticker : Tickers, cost : Costs,
     purchase_date : {MinTime(PurchaseDay)}, asset_type : {"stock"},
     trade_type : TradeTypes, attrs : {attrs}]

\* the rows of one portfolio, numbered in the order the query returns them
HoldingLists(attrs) ==
    UNION {{[i \in 1..n |-> [hs[i] EXCEPT !.id = i]] : hs \in [1..n -> Holdings(attrs)]} :
             n \in 0..MaxHoldings}

SummaryRequests ==
    {[op |-> "summary", holdings |-> hs, with_service |-> TRUE, env |-> env] :
        hs \in UNION {HoldingLists(attrs) : attrs \in Schemas}, env \in Envs}

InitSummary ==
    /\ now = MinTime(FirstDay)
    /\ memory_cache = <<>>
    /\ store = {}
    /\ slept = 0
    /\ last = NoCall
    /\ asset_name_cache = <<>>
    /\ pending \in {<<r>> : r \in SummaryRequests}

\* the observation proper of a portfolio call
Reported(res) == [Observed(res) EXCEPT !.names = <<>>]

ComputePortfolioSummary ==
    /\ pending # <<>>
    /\ pending[1].op = "summary"
    /\ LET res == compute_portfolio_summary(memory_cache, store, now, asset_name_cache,
                      pending[1].holdings, pending[1].with_service, pending[1].env)
       IN  /\ now' = res.t
           /\ memory_cache' = res.cache
           /\ store' = res.store
           /\ slept' = slept + SumSleeps(res.trace)
           /\ asset_name_cache' = res.names
           /\ last' = Reported(res)
           /\ pending' = Tail(pending)

NextSummary == ComputePortfolioSummary

SpecSummary == InitSummary /\ [][NextSummary]_vars

(***************************************************************************)
(* The valuation of one holding, asked for twice, over a store that may    *)
(* already hold the close of the purchase date.                            *)
(***************************************************************************)
PurchaseRequests ==
    {r \in SummaryRequests :
        /\ Len(r.holdings) = 1
        /\ HasAttr(r.holdings[1], "starting_price")
        /\ r.holdings[1].trade_type = "buy"
        /\ \A k \in Tickers : r.env.current[k] # Never}

InitPurchase ==
    /\ now = MinTime(FirstDay)
    /\ memory_cache = <<>>
    /\ store \in {{}, {[ticker |-> k, date |-> MinTime(PurchaseDay),
                        close_price |-> 100000] : k \in Tickers}}
    /\ slept = 0
    /\ last = NoCall
    /\ asset_name_cache = <<>>
    /\ pending \in {<<r, r>> : r \in PurchaseRequests}

SpecPurchase == InitPurchase /\ [][NextSummary]_vars

(***************************************************************************)
(* The loop of compute_portfolio_summary (portfolio.py 27-133) one holding *)
(* at a time.  pending holds the batch: the holdings, the loop's variables *)
(* (acc), the index of the next holding, the holdings whose fetches are in *)
(* flight, those whose fetches have finished, and whether the call has     *)
(* returned or raised.                                                     *)
(***************************************************************************)
Batch(holdings, env) ==
    [op |-> "batch", holdings |-> holdings, env |-> env,
     acc |-> [cache |-> <<>>, store |-> {}, t |-> MinTime(FirstDay),
              names |-> <<>>, trace |-> <<>>, raised |-> "",
              total_current_value |-> Float(0),
              total_initial_investment |-> Float(0),
              valued |-> <<>>, calculated_holdings |-> <<>>,
              allocation_map |-> <<>>],
     next |-> 1, in_flight |-> {}, finished |-> {}, returned |-> FALSE]

InBatch == pending # <<>> /\ pending[1].op = "batch" /\ ~pending[1].returned

\* line 27-28: the for statement hands the next holding to its fetches, on
\* the caller's thread, when the body of the one before has run to its end
StartHolding ==
    /\ InBatch
    /\ pending[1].in_flight = {}
    /\ pending[1].acc.raised = ""
    /\ pending[1].next <= Len(pending[1].holdings)
    /\ pending' = [pending EXCEPT ![1].in_flight = {pending[1].next}]
    /\ UNCHANGED <<now, memory_cache, store, slept, last, asset_name_cache>>

\* lines 28-133: the body of the loop for the holding in flight
FinishHolding ==
    /\ InBatch
    /\ \E i \in pending[1].in_flight :
          LET acc == summarise_holding(pending[1].acc, pending[1].holdings[i],
                                       pending[1].env)
          IN  /\ pending' = [pending EXCEPT ![1].acc = acc,
                                            ![1].next = i + 1,
                                            ![1].in_flight = {},
                                            ![1].finished = @ \cup {i}]
              /\ now' = acc.t
              /\ memory_cache' = acc.cache
              /\ store' = acc.store
              /\ asset_name_cache' = acc.names
              /\ slept' = slept
    /\ UNCHANGED last

\* lines 135-145, or the exception of the body leaving the function
ReturnSummary ==
    /\ InBatch
    /\ pending[1].in_flight = {}
    /\ pending[1].acc.raised # "" \/ pending[1].next > Len(pending[1].holdings)
    /\ pending' = [pending EXCEPT ![1].returned = TRUE]
    /\ last' = Reported(summary_of(
                   [Begin("compute_portfolio_summary", "", <<>>, {}, MinTime(FirstDay))
                       EXCEPT !.request = pending[1].holdings],
                   pending[1].holdings, pending[1].acc))
    /\ UNCHANGED <<now, memory_cache, store, slept, asset_name_cache>>

\* the purchase price and the name are there for every ticker; a current
\* price may be missing
BatchRequests ==
    {r \in SummaryRequests :
        /\ \A i \in DOMAIN r.holdings :
              r.holdings[i].trade_type = "buy" /\ r.holdings[i].cost = 100000
        /\ \A k \in Tickers :
              /\ r.env.purchase[k] =
                     AtOnce(<<[date |-> MinTime(PurchaseDay), close |-> 100000]>>)
              /\ r.env.names[k] = Info(Some(LongName(k)))}

InitBatch ==
    /\ now = MinTime(FirstDay)
    /\ memory_cache = <<>>
    /\ store = {}
    /\ slept = 0
    /\ last = NoCall
    /\ asset_name_cache = <<>>
    /\ pending \in {<<Batch(r.holdings, r.env)>> : r \in BatchRequests}

NextBatch == StartHolding \/ FinishHolding \/ ReturnSummary

SpecBatch == InitBatch /\ [][NextBatch]_vars

(***************************************************************************)
(* compute_unrealised_gain, of which the repository holds the tests        *)
(* (tests/test_gains.py) and the described results only.                   *)
(***************************************************************************)
\* variant: the gain taken as cost minus value
compute_unrealised_gain_inverted(quantity, avg_cost, current_price) ==
    [position_value |-> quantity * current_price,
     cost_basis |-> quantity * avg_cost,
     unrealised_gain |-> quantity * avg_cost - quantity * current_price]

compute_unrealised_gain(quantity, avg_cost, current_price) ==
    [position_value |-> quantity * current_price,
     cost_basis |-> quantity * avg_cost,
     unrealised_gain |-> quantity * current_price - quantity * avg_cost]

\* the calls of tests/test_gains.py and their neighbours: holdings as dicts
\* of quantity, avg_cost and current_price, and a summary asked of the list
\* alone
Quantities    == {2, 3, 5, 10}
AvgCosts      == {10, 20, 50, 100}
CurrentPrices == {15, 18, 40, 150}

GainRequests ==
    [op : {"gain"}, quantity : Quantities, avg_cost : AvgCosts,
     current_price : CurrentPrices]

LegacyHoldings ==
    [ticker : {"A", "B"}, quantity : {2, 3}, avg_cost : {10, 20},
     current_price : {15, 18}]

LegacySummaryRequests ==
    {[op |-> "summary", holdings |-> hs, with_service |-> FALSE, env |-> <<>>] :
        hs \in UNION {[1..n -> LegacyHoldings] : n \in 0..MaxHoldings}}

InitGains ==
    /\ now = MinTime(FirstDay)
    /\ memory_cache = <<>>
    /\ store = {}
    /\ slept = 0
    /\ last = NoCall
    /\ asset_name_cache = <<>>
    /\ pending \in {<<r>> : r \in GainRequests} \cup
                   {<<r>> : r \in LegacySummaryRequests}

ComputeUnrealisedGain ==
    /\ pending # <<>>
    /\ pending[1].op = "gain"
    /\ last' = [NoCall EXCEPT
                  !.op = "compute_unrealised_gain",
                  !.gain = Some(compute_unrealised_gain(pending[1].quantity,
                               pending[1].avg_cost, pending[1].current_price))]
    /\ pending' = <<>>
    /\ UNCHANGED <<now, memory_cache, store, slept, asset_name_cache>>

NextGains == ComputeUnrealisedGain \/ ComputePortfolioSummary

SpecGains == InitGains /\ [][NextGains]_vars

(***************************************************************************)
(* get_portfolio_history (services/portfolio.py) and the benchmark it      *)
(* aligns with (services/benchmark.py).                                    *)
(***************************************************************************)
\* round(x, 2) of a number carried in units of step: the nearest multiple
\* of step, the even one on a tie
RoundTo(x, step) ==
    LET q     == Div(x, step)
        floor == q[1] \div q[2]
        rem   == q[1] % q[2]
        n     == IF 2 * rem < q[2] THEN floor
                 ELSE IF 2 * rem > q[2] THEN floor + 1
                 ELSE IF floor % 2 = 0 THEN floor ELSE floor + 1
    IN  Mul(Float(n), step)

Cent      == Float(10)
Hundredth == Frac(1, 100)

\* if x: of a price that may be None
Truthy(p) == p # None /\ p[1] # 0

\* sorted(prices.keys())[0]
FirstKey(prices) == CHOOSE k \in DOMAIN prices : \A j \in DOMAIN prices : k <= j

base_price(prices) ==
    IF DOMAIN prices = {} THEN None ELSE Some(prices[FirstKey(prices)])

\* lines 177-185: the series of one holding and its base price
add_history(acc, res) ==
    [cache |-> res.cache, store |-> res.store, t |-> res.t,
     trace |-> acc.trace \o res.trace,
     histories |-> Append(acc.histories,
                       [prices |-> res.series,
                        base_price |-> base_price(res.series),
                        last_known_val |-> None])]

\* lines 173-185: one series per holding; acc = [cache, store, t, trace, histories]
RECURSIVE fetch_histories(_, _, _, _)
fetch_histories(acc, holdings, end_date, env) ==
    IF holdings = <<>>
    THEN acc
    ELSE fetch_histories(
             add_history(acc,
                 get_historical_prices_series(acc.cache, acc.store, acc.t,
                     Head(holdings).ticker, Head(holdings).purchase_date,
                     Some(end_date), env.series[Head(holdings).ticker], {})),
             Tail(holdings), end_date, env)

\* lines 207-220: what one holding adds to the total of one day
contribution(h_data, holding, current_date) ==
    LET date_str == DateStr(current_date)
        price    == IF date_str \in DOMAIN h_data.prices
                    THEN Some(h_data.prices[date_str]) ELSE None
    IN  IF DateOf(holding.purchase_date) <= DateOf(current_date)
           /\ Truthy(h_data.base_price)
        THEN IF Truthy(price)
             THEN LET val == Mul(Float(holding.cost),
                                 Div(Float(price[1]), Float(h_data.base_price[1])))
                  IN  [h_data |-> [h_data EXCEPT !.last_known_val = Some(val)],
                       val |-> Some(val)]
             ELSE IF h_data.last_known_val # None
             THEN [h_data |-> h_data, val |-> h_data.last_known_val]
             ELSE [h_data |-> h_data, val |-> None]
        ELSE [h_data |-> h_data, val |-> None]

\* lines 215-220: the total of the day after holding k
add_contribution(acc, k, c) ==
    [histories |-> [acc.histories EXCEPT ![k] = c.h_data],
     daily_total_value |-> IF c.val = None THEN acc.daily_total_value
                           ELSE Add(acc.daily_total_value, c.val[1]),
     has_data |-> acc.has_data \/ c.val # None,
     vals |-> Append(acc.vals, c.val)]

\* lines 205-220: acc = [histories, daily_total_value, has_data, vals]
RECURSIVE day_total(_, _, _, _)
day_total(acc, holdings, k, current_date) ==
    IF k > Len(holdings)
    THEN acc
    ELSE day_total(add_contribution(acc, k,
                       contribution(acc.histories[k], holdings[k], current_date)),
                   holdings, k + 1, current_date)

\* line 197: if current_date > end_date: break
past_end(current_date, end_date) == current_date > end_date

\* line 224
pct_change(daily_total_value, initial_portfolio_value) ==
    IF Less(Float(0), initial_portfolio_value)
    THEN Mul(Div(Sub(daily_total_value, initial_portfolio_value),
                 initial_portfolio_value), Float(100))
    ELSE Float(0)

\* lines 222-229: the point of a day that has data
add_point(acc, current_date, d, initial_portfolio_value) ==
    [histories |-> d.histories,
     history_points |->
         IF d.has_data
         THEN Append(acc.history_points,
                  [date |-> DateStr(current_date),
                   value |-> RoundTo(d.daily_total_value, Cent),
                   percentage_change |->
                       RoundTo(pct_change(d.daily_total_value,
                                          initial_portfolio_value), Hundredth)])
         ELSE acc.history_points,
     daily |-> Append(acc.daily, [date |-> DateStr(current_date), vals |-> d.vals])]

\* lines 195-229: acc = [histories, history_points, daily]
RECURSIVE daily_values(_, _, _, _, _, _)
daily_values(acc, i, holdings, start_date, end_date, initial_portfolio_value) ==
    LET delta_days   == (end_date - start_date) \div SecondsPerDay
        current_date == start_date + i * SecondsPerDay
    IN  IF i >= delta_days + 2 \/ past_end(current_date, end_date)
        THEN acc
        ELSE daily_values(
                 add_point(acc, current_date,
                     day_total([histories |-> acc.histories,
                                daily_total_value |-> Float(0),
                                has_data |-> FALSE, vals |-> <<>>],
                               holdings, 1, current_date),
                     initial_portfolio_value),
                 i + 1, holdings, start_date, end_date, initial_portfolio_value)

\* benchmark.py 14-16: the cache of a BenchmarkService just built
BenchmarkTTL == 3600
BenchmarkService == <<>>

\* benchmark.py 29
sp500_cache_key(start_date, end_date) ==
    <<"^GSPC", DateOf(start_date), DateOf(end_date)>>

\* benchmark.py 42-49: the rows of the range as a map from date to close
sp500_rows(start_date, end_date, answer) ==
    IF answer.kind = "data"
    THEN Restrict(answer.value[1],
                  {d \in DOMAIN answer.value[1] :
                      DateOf(start_date) <= d /\ d <= DateOf(end_date)})
    ELSE <<>>

\* benchmark.py 18-62: cache is the _cache of the service that is asked;
\* the result is [prices, cache, fetched]
get_sp500_history(cache, start_date, end_date, answer, t) ==
    IF /\ sp500_cache_key(start_date, end_date) \in DOMAIN cache
       /\ t - cache[sp500_cache_key(start_date, end_date)].timestamp < BenchmarkTTL
    THEN [prices |-> cache[sp500_cache_key(start_date, end_date)].data,
          cache |-> cache, fetched |-> FALSE]
    ELSE IF answer.kind = "raise"
    THEN [prices |-> <<>>, cache |-> cache, fetched |-> TRUE]
    ELSE [prices |-> sp500_rows(start_date, end_date, answer),
          cache |-> Put(cache, sp500_cache_key(start_date, end_date),
                        [data |-> sp500_rows(start_date, end_date, answer),
                         timestamp |-> t]),
          fetched |-> TRUE]

\* benchmark.py 64-91
calculate_percentage_change_series(prices, base_date) ==
    IF DOMAIN prices = {} \/ base_date \notin DOMAIN prices
    THEN <<>>
    ELSE IF prices[base_date] = 0
    THEN <<>>
    ELSE [date \in DOMAIN prices |->
             RoundTo(Mul(Div(Sub(Float(prices[date]), Float(prices[base_date])),
                             Float(prices[base_date])), Float(100)),
                     Hundredth)]

\* a variant that pairs every portfolio point with a flat benchmark when
\* there is no index series
benchmark_history_of_flat(history_points, sp500_prices) ==
    IF history_points # <<>> /\ DOMAIN sp500_prices # {}
    THEN LET benchmark_pct_changes ==
                 calculate_percentage_change_series(sp500_prices,
                                                    history_points[1].date)
             Aligned(point) == point.date \in DOMAIN benchmark_pct_changes
             Entry(point) == [date |-> point.date,
                              percentage_change |-> benchmark_pct_changes[point.date]]
             kept == SelectSeq(history_points, Aligned)
         IN  [j \in DOMAIN kept |-> Entry(kept[j])]
    ELSE [j \in DOMAIN history_points |->
             [date |-> history_points[j].date, percentage_change |-> Float(0)]]

\* lines 236-250
benchmark_history_of(history_points, sp500_prices) ==
    IF history_points # <<>> /\ DOMAIN sp500_prices # {}
    THEN LET benchmark_pct_changes ==
                 calculate_percentage_change_series(sp500_prices,
                                                    history_points[1].date)
             Aligned(point) == point.date \in DOMAIN benchmark_pct_changes
             Entry(point) == [date |-> point.date,
                              percentage_change |-> benchmark_pct_changes[point.date]]
             kept == SelectSeq(history_points, Aligned)
         IN  [j \in DOMAIN kept |-> Entry(kept[j])]
    ELSE <<>>

Earliest(holdings) ==
    CHOOSE d \in {holdings[k].purchase_date : k \in DOMAIN holdings} :
        \A k \in DOMAIN holdings : d <= holdings[k].purchase_date

RECURSIVE SumCosts(_)
SumCosts(holdings) ==
    IF holdings = <<>> THEN Float(0)
    ELSE Add(Float(Head(holdings).cost), SumCosts(Tail(holdings)))

\* lines 231-256: the benchmark is aligned and the response built
history_response(fetched, holdings, d, b) ==
    [fetched EXCEPT
       !.daily = d.daily,
       !.trace = IF b.fetched THEN Append(@, <<"call", "index">>) ELSE @,
       !.index = b.prices,
       !.history = [portfolio_id |-> holdings[1].portfolio_id,
                    history |-> d.history_points,
                    benchmark_history |->
                        benchmark_history_of(d.history_points, b.prices)]]

\* lines 187-256: the daily values of the series that were fetched
history_of(start, holdings, env, start_date, end_date, f) ==
    LET fetched == [start EXCEPT
                      !.cache = f.cache, !.store = f.store, !.t = f.t,
                      !.trace = f.trace, !.range = <<start_date, end_date>>,
                      !.valued = [k \in DOMAIN f.histories |->
                                    [prices |-> f.histories[k].prices,
                                     base_price |-> f.histories[k].base_price]]]
    IN  IF \E k \in DOMAIN holdings : ~HasAttr(holdings[k], "starting_price")
        THEN [fetched EXCEPT !.raised = TRUE, !.error = "AttributeError"]
        ELSE history_response(fetched, holdings,
                 daily_values([histories |-> f.histories,
                               history_points |-> <<>>, daily |-> <<>>],
                              0, holdings, start_date, end_date,
                              SumCosts(holdings)),
                 get_sp500_history(BenchmarkService, start_date, end_date,
                                   env.sp500, f.t))

get_portfolio_history(mc, st, t, holdings, env) ==
    LET start == [Begin("get_portfolio_history", "", mc, st, t)
                     EXCEPT !.request = holdings]
    IN  IF holdings = <<>>
        THEN [start EXCEPT !.history = [portfolio_id |-> "", history |-> <<>>,
                                        benchmark_history |-> <<>>]]
        ELSE history_of(start, holdings, env, Earliest(holdings), t,
                 fetch_histories([cache |-> mc, store |-> st, t |-> t,
                                  trace |-> <<>>, histories |-> <<>>],
                                 holdings, t, env))

(***************************************************************************)
(* A history request: the holdings of a portfolio, the closes the price    *)
(* store already holds, and what the providers answer while it is served.  *)
(***************************************************************************)
\* bought at 00:00 or at 00:01:40 of day 0, or at 00:00 of the first day
PurchaseInstants == {MinTime(0), MinTime(0) + 100, MinTime(FirstDay)}

HistoryHoldings(attrs) ==
    [id : {0}, portfolio_id : {"P1"}, ticker : Tickers, cost : {100000},
     purchase_date : PurchaseInstants, asset_type : {"stock"},
     trade_type : {"buy"}, attrs : {attrs}]

HistoryLists(attrs) ==
    UNION {{[i \in 1..n |-> [hs[i] EXCEPT !.id = i]] :
               hs \in [1..n -> HistoryHoldings(attrs)]} : n \in 0..MaxHoldings}

\* the closes stored for one ticker: none, day 0 alone, or every day from
\* some day on, the first of them lower than the rest
PriceTables ==
    {<<>>, [d \in {0} |-> 1500]}
    \cup {[d \in k..FirstDay |-> IF d = k THEN 1500 ELSE 1800] : k \in 0..FirstDay}

RowsOf(tables) ==
    UNION {{[ticker |-> ticker, date |-> MinTime(d),
              close_price |-> tables[ticker][d]] : d \in DOMAIN tables[ticker]} :
             ticker \in Tickers}

\* the price provider has today's close or nothing
TodayScripts ==
    {Never, AtOnce(<<[date |-> MinTime(FirstDay), close |-> 1504]>>)}

\* the index provider fails, has no rows, or has a close for every day or
\* for every day but day 0
IndexAnswers ==
    {Raise, Empty} \cup
    {Data([d \in k..FirstDay |-> 400000 + 4000 * d]) : k \in 0..1}

HistoryEnvs ==
    {[series |-> [ticker \in Tickers |-> s], sp500 |-> a] :
        s \in TodayScripts, a \in IndexAnswers}

HistoryRequests ==
    {[op |-> "history", holdings |-> hs, env |-> env] :
        hs \in UNION {HistoryLists(attrs) : attrs \in Schemas}, env \in HistoryEnvs}

InitHistory ==
    /\ now = MinTime(FirstDay)
    /\ memory_cache = <<>>
    /\ \E tables \in [Tickers -> PriceTables] : store = RowsOf(tables)
    /\ slept = 0
    /\ last = NoCall
    /\ asset_name_cache = <<>>
    /\ pending \in {<<r>> : r \in HistoryRequests}

GetPortfolioHistory ==
    /\ pending # <<>>
    /\ pending[1].op = "history"
    /\ LET res == get_portfolio_history(memory_cache, store, now,
                      pending[1].holdings, pending[1].env)
       IN  /\ now' = res.t
           /\ memory_cache' = res.cache
           /\ store' = res.store
           /\ slept' = slept + SumSleeps(res.trace)
           /\ last' = Reported(res)
           /\ pending' = Tail(pending)
           /\ UNCHANGED asset_name_cache

NextHistory == GetPortfolioHistory

SpecHistory == InitHistory /\ [][NextHistory]_vars

\* the same request is made twice in a row
InitBenchmark ==
    /\ now = MinTime(FirstDay)
    /\ memory_cache = <<>>
    /\ \E tables \in [Tickers -> PriceTables] : store = RowsOf(tables)
    /\ slept = 0
    /\ last = NoCall
    /\ asset_name_cache = <<>>
    /\ pending \in {<<r, r>> : r \in HistoryRequests}

SpecBenchmark == InitBenchmark /\ [][NextHistory]_vars

(***************************************************************************)
(* get_portfolio_intraday_history (services/portfolio.py).  A timestamp    *)
(* is the number of a five-minute bar of today.                            *)
(***************************************************************************)
\* lines 268-271: the bars of one holding; acc = [cache, store, t, trace,
\* holding_intraday, all_timestamps, base_prices]
add_intraday(acc, res) ==
    [acc EXCEPT !.cache = res.cache, !.t = res.t,
                !.trace = acc.trace \o res.trace,
                !.holding_intraday = Append(@, res.series),
                !.all_timestamps = @ \cup DOMAIN res.series]

RECURSIVE fetch_intraday(_, _, _)
fetch_intraday(acc, holdings, env) ==
    IF holdings = <<>>
    THEN acc
    ELSE fetch_intraday(
             add_intraday(acc,
                 get_intraday_prices(acc.cache, acc.store, acc.t,
                     Head(holdings).ticker, env.intraday[Head(holdings).ticker])),
             Tail(holdings), env)

\* lines 288-303: the starting price is read for a holding without bars
reads_starting_price(holdings, holding_intraday) ==
    \E k \in DOMAIN holdings :
        DOMAIN holding_intraday[k] = {} /\ ~HasAttr(holdings[k], "starting_price")

\* lines 355-360: the close of the purchase date is fetched and stored
add_fetched_base(acc, holding, hist) ==
    IF hist.ret # None /\ hist.ret[1] # <<>>
    THEN [acc EXCEPT
            !.t = hist.t, !.trace = acc.trace \o hist.trace,
            !.store = store_price(acc.store, holding.ticker,
                                  DateOf(holding.purchase_date),
                                  hist.ret[1][1].close, TRUE).store,
            !.base_prices = Append(@, Some(hist.ret[1][1].close))]
    ELSE [acc EXCEPT !.t = hist.t, !.trace = acc.trace \o hist.trace,
                     !.base_prices = Append(@, None)]

\* lines 350-362: the stored close of the purchase date, else a fetch
add_base(acc, holding, env, price) ==
    IF Truthy(price)
    THEN [acc EXCEPT !.base_prices = Append(@, price)]
    ELSE add_fetched_base(acc, holding,
             get_historical_prices(acc.cache, acc.store, acc.t, holding.ticker,
                 holding.purchase_date, Some(holding.purchase_date),
                 env.purchase[holding.ticker]))

RECURSIVE base_prices(_, _, _)
base_prices(acc, holdings, env) ==
    IF holdings = <<>>
    THEN acc
    ELSE base_prices(
             add_base(acc, Head(holdings), env,
                 get_cached_price(acc.store, Head(holdings).ticker,
                                  DateOf(Head(holdings).purchase_date))),
             Tail(holdings), env)

\* lines 376-385: what one holding adds at one timestamp
intraday_value(holding, prices, base, ts) ==
    IF ts \in DOMAIN prices /\ prices[ts] # 0 /\ Truthy(base)
    THEN Some(Mul(Float(holding.cost),
                  Div(Float(prices[ts]), Float(base[1]))))
    ELSE None

\* lines 383-385
add_intraday_value(tot, val) ==
    IF val = None THEN tot
    ELSE [daily_total_value |-> Add(tot.daily_total_value, val[1]),
          has_valid_data |-> TRUE]

\* lines 369-385: tot = [daily_total_value, has_valid_data]
RECURSIVE intraday_total(_, _, _, _, _)
intraday_total(tot, k, holdings, acc, ts) ==
    IF k > Len(holdings)
    THEN tot
    ELSE intraday_total(
             add_intraday_value(tot,
                 intraday_value(holdings[k], acc.holding_intraday[k],
                                acc.base_prices[k], ts)),
             k + 1, holdings, acc, ts)

\* variant: every point is its own base
initial_value_of_each(initial_value, daily_total_value) == daily_total_value

\* lines 388-389: if initial_value == 0: initial_value = daily_total_value
initial_value_of(initial_value, daily_total_value) ==
    IF initial_value = Float(0) THEN daily_total_value ELSE initial_value

\* lines 387-399: out = [initial_value, history_points, totals]
add_intraday_point(out, ts, tot) ==
    IF tot.has_valid_data
    THEN [initial_value |-> initial_value_of(out.initial_value, tot.daily_total_value),
          history_points |-> Append(out.history_points,
              [date |-> ts,
               value |-> RoundTo(tot.daily_total_value, Cent),
               percentage_change |->
                   RoundTo(pct_change(tot.daily_total_value,
                               initial_value_of(out.initial_value,
                                                tot.daily_total_value)),
                           Hundredth)]),
          totals |-> Append(out.totals, tot.daily_total_value)]
    ELSE out

\* sorted(list(all_timestamps))[0]
sorted_first(timestamps) == CHOOSE ts \in timestamps : \A u \in timestamps : ts <= u

\* lines 365-399, over the timestamps in ascending order
RECURSIVE intraday_points(_, _, _, _)
intraday_points(out, timestamps, holdings, acc) ==
    IF timestamps = {}
    THEN out
    ELSE intraday_points(
             add_intraday_point(out, sorted_first(timestamps),
                 intraday_total([daily_total_value |-> Float(0),
                                 has_valid_data |-> FALSE],
                                1, holdings, acc, sorted_first(timestamps))),
             timestamps \ {sorted_first(timestamps)}, holdings, acc)

\* lines 401-405
intraday_response(fetched, holdings, acc, out) ==
    [fetched EXCEPT
       !.cache = acc.cache, !.store = acc.store, !.t = acc.t, !.trace = acc.trace,
       !.valued = [k \in DOMAIN holdings |->
                      [prices |-> acc.holding_intraday[k],
                       base_price |-> acc.base_prices[k]]],
       !.daily = out.totals,
       !.history = [portfolio_id |-> holdings[1].portfolio_id,
                    history |-> out.history_points,
                    benchmark_history |-> <<>>]]

\* lines 364-405: float(holding.starting_price) is read where a holding
\* has a bar and a base price
intraday_base_of(fetched, holdings, acc) ==
    IF \E k \in DOMAIN holdings : \E ts \in acc.all_timestamps :
           /\ intraday_value(holdings[k], acc.holding_intraday[k],
                             acc.base_prices[k], ts) # None
           /\ ~HasAttr(holdings[k], "starting_price")
    THEN [fetched EXCEPT !.cache = acc.cache, !.store = acc.store, !.t = acc.t,
                         !.trace = acc.trace,
                         !.raised = TRUE, !.error = "AttributeError"]
    ELSE intraday_response(fetched, holdings, acc,
             intraday_points([initial_value |-> Float(0), history_points |-> <<>>,
                              totals |-> <<>>],
                             acc.all_timestamps, holdings, acc))

\* lines 273-405: after the bars were fetched
intraday_history_of(start, holdings, env, acc) ==
    LET fetched == [start EXCEPT !.cache = acc.cache, !.store = acc.store,
                                 !.t = acc.t, !.trace = acc.trace]
    IN  IF acc.all_timestamps = {}
        THEN [fetched EXCEPT
                !.history = [portfolio_id |-> holdings[1].portfolio_id,
                             history |-> <<>>, benchmark_history |-> <<>>]]
        ELSE IF reads_starting_price(holdings, acc.holding_intraday)
        THEN [fetched EXCEPT !.raised = TRUE, !.error = "AttributeError"]
        ELSE intraday_base_of(fetched, holdings, base_prices(acc, holdings, env))

get_portfolio_intraday_history(mc, st, t, holdings, env) ==
    LET start == [Begin("get_portfolio_intraday_history", "", mc, st, t)
                     EXCEPT !.request = holdings]
    IN  IF holdings = <<>>
        THEN [start EXCEPT !.history = [portfolio_id |-> "", history |-> <<>>,
                                        benchmark_history |-> <<>>]]
        ELSE intraday_history_of(start, holdings, env,
                 fetch_intraday([cache |-> mc, store |-> st, t |-> t,
                                 trace |-> <<>>, holding_intraday |-> <<>>,
                                 all_timestamps |-> {}, base_prices |-> <<>>],
                                holdings, env))

(***************************************************************************)
(* An intraday request: the holdings, whether the store has the closes of  *)
(* the purchase date, and what the provider answers.                       *)
(***************************************************************************)
\* the bars of one ticker: the first, the first two, or the last two
IntradayMaps ==
    {<<1500>>, <<1500, 1650>>, [ts \in 2..3 |-> IF ts = 2 THEN 1500 ELSE 1650]}

IntradayScripts == {Never} \cup {AtOnce(m) : m \in IntradayMaps}

BaseScripts == {Never, AtOnce(<<[date |-> MinTime(PurchaseDay), close |-> 1500]>>)}

IntradayEnvs ==
    {[intraday |-> i, purchase |-> [ticker \in Tickers |-> p]] :
        i \in [Tickers -> IntradayScripts], p \in BaseScripts}

IntradayHoldings(attrs) ==
    [id : {0}, portfolio_id : {"P1"}, ticker : Tickers, cost : Costs,
     purchase_date : {MinTime(PurchaseDay)}, asset_type : {"stock"},
     trade_type : {"buy"}, attrs : {attrs}]

IntradayLists(attrs) ==
    UNION {{[i \in 1..n |-> [hs[i] EXCEPT !.id = i]] :
               hs \in [1..n -> IntradayHoldings(attrs)]} : n \in 0..MaxHoldings}

IntradayRequests ==
    {[op |-> "intraday", holdings |-> hs, env |-> env] :
        hs \in UNION {IntradayLists(attrs) : attrs \in Schemas}, env \in IntradayEnvs}

\* the closes of the purchase date are stored for every ticker or for none
InitIntraday ==
    /\ now = MinTime(FirstDay)
    /\ memory_cache = <<>>
    /\ store \in {{}, {[ticker |-> ticker, date |-> MinTime(PurchaseDay),
                        close_price |-> 1500] : ticker \in Tickers}}
    /\ slept = 0
    /\ last = NoCall
    /\ asset_name_cache = <<>>
    /\ pending \in {<<r>> : r \in IntradayRequests}

GetPortfolioIntradayHistory ==
    /\ pending # <<>>
    /\ pending[1].op = "intraday"
    /\ LET res == get_portfolio_intraday_history(memory_cache, store, now,
                      pending[1].holdings, pending[1].env)
       IN  /\ now' = res.t
           /\ memory_cache' = res.cache
           /\ store' = res.store
           /\ slept' = slept + SumSleeps(res.trace)
           /\ last' = Reported(res)
           /\ pending' = <<>>
           /\ UNCHANGED asset_name_cache

NextIntraday == GetPortfolioIntradayHistory

SpecIntraday == InitIntraday /\ [][NextIntraday]_vars

(***************************************************************************)
(* Every caller of the price store on one table: the two portfolio series, *)
(* the current price, the historical series, the direct writes, the        *)
(* retention sweep and the invalidation.                                   *)
(***************************************************************************)
\* the rows a cutoff can single out: none, those the table had before the
\* service started (only FetchTickers are written afterwards), or all
OldRows(st) == {{}, {r \in st : r.ticker \notin FetchTickers}, st}

CleanupOldCache ==
    \E old \in OldRows(store) :
        LET c == cleanup_old_cache(store, old)
        IN  /\ store' = c.store
            /\ last' = [NoCall EXCEPT !.op = "cleanup_old_cache",
                                      !.ret = Some(c.ret)]
            /\ UNCHANGED <<now, memory_cache, slept, asset_name_cache, pending>>

InvalidateCache ==
    \E ticker \in Tickers, target_date \in {None} \cup {Some(d) : d \in Days} :
        LET c == invalidate_cache(store, ticker, target_date)
        IN  /\ store' = c.store
            /\ last' = [NoCall EXCEPT !.op = "invalidate_cache",
                                      !.ticker = ticker, !.ret = Some(c.ret)]
            /\ UNCHANGED <<now, memory_cache, slept, asset_name_cache, pending>>

\* a bulk write of the closes of day 0 and today; the write of day 0 may fail
StoreBulkOfTable ==
    \E ticker \in FetchTickers, p \in {1650, 1800}, bad \in {{}, {0}} :
        LET prices == <<[date |-> MinTime(0), close |-> p],
                        [date |-> MinTime(DateOf(now)), close |-> p]>>
            w == store_bulk_prices(ticker, prices, bad,
                     [store |-> store, stored_count |-> 0, stored |-> {}])
        IN  /\ store' = w.store
            /\ last' = [NoCall EXCEPT
                           !.op = "store_bulk_prices", !.ticker = ticker,
                           !.delivered = prices, !.writes = Len(prices),
                           !.missing = bad,
                           !.stored = w.stored, !.ret = Some(w.stored_count)]
            /\ UNCHANGED <<now, memory_cache, slept, asset_name_cache, pending>>

\* one holding of the ticker that is fetched, bought on day 0
TableHistoryRequests ==
    {r \in HistoryRequests :
        /\ Len(r.holdings) = 1
        /\ r.holdings[1].ticker \in FetchTickers
        /\ r.holdings[1].purchase_date = MinTime(0)
        /\ HasAttr(r.holdings[1], "starting_price")
        /\ \A k \in Tickers : r.env.series[k] # Never
        /\ r.env.sp500 = Empty}

TableIntradayRequests ==
    {r \in IntradayRequests :
        /\ Len(r.holdings) = 1
        /\ r.holdings[1].ticker \in FetchTickers
        /\ r.holdings[1].cost # 0
        /\ HasAttr(r.holdings[1], "starting_price")
        /\ \A k \in Tickers : r.env.purchase[k] # Never
        /\ \A k \in FetchTickers : r.env.intraday[k] = AtOnce(<<1500, 1650>>)
        /\ \A k \in Tickers \ FetchTickers : r.env.intraday[k] = Never}

InitTable ==
    /\ now = MinTime(FirstDay)
    /\ memory_cache = <<>>
    /\ store = {[ticker |-> ticker, date |-> MinTime(d), close_price |-> Numeric2(p)] :
                   ticker \in Tickers \ FetchTickers, d \in 0..FirstDay,
                   p \in {CHOOSE q \in Prices : TRUE}}
    /\ slept = 0
    /\ last = NoCall
    /\ asset_name_cache = <<>>
    /\ pending \in {<<h, i>> : h \in TableHistoryRequests, i \in TableIntradayRequests}

NextTable ==
    \/ GetPortfolioHistory
    \/ GetPortfolioIntradayHistory
    \/ FetchCurrentPrice
    \/ RefetchSeries
    \/ StorePrice
    \/ StoreBulkOfTable
    \/ CleanupOldCache
    \/ InvalidateCache

SpecTable == InitTable /\ [][NextTable]_vars

(***************************************************************************)
(* Reading an observation and the state, for the properties below.         *)
(***************************************************************************)
Calls(obs)  == Cardinality({i \in DOMAIN obs.trace : obs.trace[i][1] = "call"})
Sleeps(obs) == Cardinality({i \in DOMAIN obs.trace : obs.trace[i][1] = "sleep"})

\* the kinds of answer the provider gave, in order
IsCall(e) == e[1] = "call"
CallKinds(obs) == [i \in 1..Calls(obs) |-> SelectSeq(obs.trace, IsCall)[i][2]]
AnsweredAtOnce(obs) == Calls(obs) > 0 => CallKinds(obs)[1] = "data"

CurrentKey(ticker) == <<"current_price", ticker>>

\* the closes the table holds for a ticker on a day
ClosesOn(st, ticker, day) ==
    {r.close_price : r \in {q \in st : q.ticker = ticker /\ q.date \div SecondsPerDay = day}}

Fresh(mc, key, ttl, t)   == key \in DOMAIN mc /\ t - mc[key].timestamp < ttl
Expired(mc, key, ttl, t) == key \in DOMAIN mc /\ t - mc[key].timestamp >= ttl

(***************************************************************************)
(* C1.  A get_current_price call made less than the current-price TTL      *)
(* (15 min) after the ticker's price was written to the in-memory cache    *)
(* returns exactly the cached price, with no provider call and no store    *)
(* read.                                                                   *)
(***************************************************************************)
C1_FreshEntryIsServedFromMemory ==
    [][\A ticker \in Tickers :
         ( /\ last'.op = "get_current_price"
           /\ last'.ticker = ticker
           /\ Fresh(memory_cache, CurrentKey(ticker), CurrentPriceTTL, now) )
         => /\ last'.ret = <<memory_cache[CurrentKey(ticker)].data>>
            /\ Calls(last') = 0
            /\ last'.reads = 0
            /\ last'.writes = 0]_vars

\* a hit on an entry that is no longer new
C1_Witness ==
    /\ last.op = "get_current_price"
    /\ last.log = "HIT"
    /\ last.ret # <<>>
    /\ CurrentKey(last.ticker) \in DOMAIN memory_cache
    /\ now - memory_cache[CurrentKey(last.ticker)].timestamp
          >= CurrentPriceTTL - base_delay * 2

(***************************************************************************)
(* C2, as claimed.  A get_current_price call made after the ticker's       *)
(* in-memory entry has outlived its TTL is a miss and goes to the          *)
(* provider: with exactly one provider call when the provider answers the  *)
(* first attempt with data.                                                *)
(***************************************************************************)
C2_ExpiredEntryRefetchesOnce ==
    [][\A ticker \in Tickers :
         ( /\ last'.op = "get_current_price"
           /\ last'.ticker = ticker
           /\ Expired(memory_cache, CurrentKey(ticker), CurrentPriceTTL, now) )
         => /\ last'.tiers # <<"memory">>
            /\ Calls(last') >= 1
            /\ AnsweredAtOnce(last') => Calls(last') = 1]_vars

(***************************************************************************)
(* C2, amended.  Such a call misses the memory cache and drops the entry;  *)
(* when the store holds an observation for (ticker, today) it returns that *)
(* close without any provider call; otherwise it goes to the provider,     *)
(* with exactly one provider call, whose price it returns, when the        *)
(* provider answers the first attempt with data.                           *)
(***************************************************************************)
C2_ExpiredEntryFallsThroughToStore ==
    [][\A ticker \in Tickers :
         ( /\ last'.op = "get_current_price"
           /\ last'.ticker = ticker
           /\ Expired(memory_cache, CurrentKey(ticker), CurrentPriceTTL, now) )
         => /\ last'.tiers # <<"memory">>
            /\ last'.log = "EXPIRED"
            /\ IF ClosesOn(store, ticker, now \div SecondsPerDay) # {}
               THEN /\ Calls(last') = 0
                    /\ last'.ret # <<>>
                    /\ last'.ret[1] \in ClosesOn(store, ticker, now \div SecondsPerDay)
               ELSE /\ Calls(last') >= 1
                    /\ AnsweredAtOnce(last') =>
                          /\ Calls(last') = 1
                          /\ last'.ret # <<>>
                          /\ last'.ret[1] \in Prices
                          /\ memory_cache'[CurrentKey(ticker)].timestamp = now']_vars

\* an entry that expired overnight, yesterday's close in the store, nothing
\* stored for today, one provider call
C2_Witness ==
    /\ last.op = "get_current_price"
    /\ last.log = "EXPIRED"
    /\ Calls(last) = 1
    /\ last.ret # <<>>
    /\ now \div SecondsPerDay = FirstDay + 1
    /\ ClosesOn(store, last.ticker, FirstDay) # {}

(***************************************************************************)
(* C6, as claimed.  get_current_price consults memory, store, provider in  *)
(* that order, each only after the one before missed; a returned price p   *)
(* is in the memory cache on return, and when p came from the provider the *)
(* store holds (ticker, today) -> p.                                       *)
(***************************************************************************)
TierOrder(obs) ==
    /\ obs.tiers \in {<<"memory">>, <<"memory", "store">>,
                      <<"memory", "store", "provider">>}
    /\ (obs.log = "HIT") <=> (obs.tiers = <<"memory">>)
    /\ (obs.reads = 1) <=> (obs.tiers # <<"memory">>)
    /\ (Calls(obs) > 0) => (obs.tiers = <<"memory", "store", "provider">>)

MemoryHolds(obs) ==
    obs.ret # <<>> =>
        /\ CurrentKey(obs.ticker) \in DOMAIN memory_cache
        /\ memory_cache[CurrentKey(obs.ticker)].data = obs.ret[1]

FromProvider(obs) == obs.ret # <<>> /\ Calls(obs) > 0

C6_TiersAndWriteThrough ==
    last.op = "get_current_price" =>
        /\ TierOrder(last)
        /\ MemoryHolds(last)
        /\ FromProvider(last) =>
              ClosesOn(store, last.ticker, now \div SecondsPerDay) = {last.ret[1]}

(***************************************************************************)
(* C6, amended.  The same, except that the store holds (ticker, today) ->  *)
(* p rounded to the two decimals of the close_price column, and only when  *)
(* the store write succeeded; a failed write leaves the store as it was.   *)
(***************************************************************************)
RoundedToCents(p) == ((p + 5) \div 10) * 10

C6_TiersAndRoundedWriteThrough ==
    last.op = "get_current_price" =>
        /\ TierOrder(last)
        /\ MemoryHolds(last)
        /\ (FromProvider(last) /\ last.stored # {}) =>
              ClosesOn(store, last.ticker, now \div SecondsPerDay)
                  = {RoundedToCents(last.ret[1])}
        /\ (last.tiers = <<"memory", "store">>) =>
              last.ret[1] \in ClosesOn(store, last.ticker, now \div SecondsPerDay)

\* a provider price with a fraction of a cent, written through
C6_Witness ==
    /\ last.op = "get_current_price"
    /\ FromProvider(last)
    /\ last.stored # {}
    /\ last.ret[1] # RoundedToCents(last.ret[1])
    /\ Sleeps(last) > 0

(***************************************************************************)
(* C3.  Whatever puts, gets and clears came before, a get never returns    *)
(* an entry whose age (now - fetched_at) has reached the TTL passed for    *)
(* its bucket: it returns absent and removes the entry from the table;     *)
(* and what a get returns is the data of an entry younger than the TTL.    *)
(***************************************************************************)
C3_GetNeverReturnsExpired ==
    [][last'.op = "get_from_memory_cache" =>
         LET key == last'.key
             ttl == last'.ttl
         IN  /\ Expired(memory_cache, key, ttl, now) =>
                   /\ last'.ret = <<>>
                   /\ key \notin DOMAIN memory_cache'
             /\ last'.ret # <<>> =>
                   /\ key \in DOMAIN memory_cache
                   /\ now - memory_cache[key].timestamp < ttl
                   /\ last'.ret[1] = memory_cache[key].data]_vars

\* a get has just found an entry exactly as old as its TTL, and removed it
C3_Witness ==
    /\ last.op = "get_from_memory_cache"
    /\ last.log = "EXPIRED"
    /\ last.key \notin DOMAIN memory_cache
    /\ \E other \in DOMAIN memory_cache :
          now - memory_cache[other].timestamp = last.ttl

(***************************************************************************)
(* C4.  A call of get_current_price, get_historical_prices or              *)
(* get_intraday_prices that reaches the provider makes at most max_retries *)
(* provider calls, none after the first answer with data, does not sleep   *)
(* before attempt 0 and sleeps exactly base_delay * 2^attempt before each  *)
(* attempt >= 1.                                                           *)
(***************************************************************************)
FetchOps == {"get_current_price", "get_historical_prices", "get_intraday_prices"}

\* call, sleep 2*2^1, call, sleep 2*2^2, call, ...
ExpectedTrace(kinds) ==
    [i \in 1..(2 * Len(kinds) - 1) |->
        IF i % 2 = 1 THEN <<"call", kinds[(i + 1) \div 2]>>
                     ELSE <<"sleep", base_delay * 2^(i \div 2)>>]

C4_BoundedRetriesWithBackoff ==
    (last.op \in FetchOps /\ Calls(last) > 0) =>
        LET kinds == CallKinds(last)
        IN  /\ Len(kinds) <= max_retries
            /\ \A i \in 1..(Len(kinds) - 1) : kinds[i] # "data"
            /\ last.trace = ExpectedTrace(kinds)

\* a call that got data on the last attempt of its budget
C4_Witness ==
    /\ last.op = "get_historical_prices"
    /\ Calls(last) = max_retries
    /\ Sleeps(last) = max_retries - 1
    /\ last.ret # <<>>

(***************************************************************************)
(* C5.  An empty answer on a non-final attempt is followed by another      *)
(* attempt, just as a raised error is; when every attempt of the budget    *)
(* was empty or raised, the call returns its no-data value (None, or the   *)
(* empty map for get_intraday_prices) and raises nothing.                  *)
(***************************************************************************)
NoData(obs) == obs.ret = <<>> /\ obs.series = <<>>

C5_EmptyIsRetriedAndExhaustionIsNoData ==
    (last.op \in FetchOps /\ Calls(last) > 0) =>
        LET kinds == CallKinds(last)
            n     == Len(kinds)
        IN  /\ \A i \in 1..n :
                  (kinds[i] \in {"empty", "raise"} /\ i < max_retries) => i < n
            /\ (\A i \in 1..n : kinds[i] \in {"empty", "raise"}) =>
                  (n = max_retries /\ NoData(last))
            /\ ~last.raised

\* a budget spent on empty answers only, and one on both kinds of failure
C5_Witness ==
    /\ last.op \in FetchOps
    /\ Calls(last) = max_retries
    /\ NoData(last)
    /\ CallKinds(last)[1] = "empty"
    /\ CallKinds(last)[max_retries] = "empty"
    /\ CallKinds(last)[2] = "raise"

(***************************************************************************)
(* Reading the table by calendar day, for the gap-fill properties.         *)
(***************************************************************************)
DayOf(t) == t \div SecondsPerDay

StoredDays(st, ticker, lo, hi)  == {d \in lo..hi : ClosesOn(st, ticker, d) # {}}
MissingDays(st, ticker, lo, hi) == (lo..hi) \ StoredDays(st, ticker, lo, hi)

Ascending(seq) == \A i \in 1..(Len(seq) - 1) : seq[i] < seq[i + 1]
Elements(seq)  == {seq[i] : i \in DOMAIN seq}

Least(S)    == CHOOSE x \in S : \A y \in S : x <= y
Greatest(S) == CHOOSE x \in S : \A y \in S : x >= y

DeliveredDays(obs) == {DayOf(obs.delivered[i].date) : i \in DOMAIN obs.delivered}
DeliveredClose(obs, d) ==
    obs.delivered[CHOOSE i \in DOMAIN obs.delivered : DayOf(obs.delivered[i].date) = d].close

(***************************************************************************)
(* C7.  For every ticker and range start <= end, find_missing_dates        *)
(* returns exactly the calendar days of [start, end], both ends included   *)
(* and in ascending order, that have no observation of that ticker in the  *)
(* store: the empty list when every day is stored, every day of the range  *)
(* when none is.                                                           *)
(***************************************************************************)
C7_MissingDatesAreTheUnstoredDays ==
    [][last'.op = "find_missing_dates" =>
         LET lo == last'.range[1]
             hi == last'.range[2]
             m  == last'.missing
         IN  /\ lo <= hi
             /\ Ascending(m)
             /\ Elements(m) = MissingDays(store, last'.ticker, lo, hi)
             /\ StoredDays(store, last'.ticker, lo, hi) = lo..hi => m = <<>>
             /\ StoredDays(store, last'.ticker, lo, hi) = {} =>
                   m = [i \in 1..(hi - lo + 1) |-> lo + i - 1]]_vars

\* a range stored in part, its gap stored for another ticker
C7_Witness ==
    /\ last.op = "find_missing_dates"
    /\ last.range[2] > last.range[1]
    /\ Len(last.missing) >= 1
    /\ Len(last.missing) < last.range[2] - last.range[1] + 1
    /\ last.missing[Len(last.missing)] = last.range[2]
    /\ \E other \in Tickers \ {last.ticker} :
          ClosesOn(store, other, last.missing[1]) # {}

(***************************************************************************)
(* C8.  get_historical_prices_series calls the provider if and only if     *)
(* some calendar day of the range has no stored observation of the ticker; *)
(* when every day of the range is stored it returns the stored map with    *)
(* no provider call and no store write.                                    *)
(***************************************************************************)
C8_ProviderIsCalledIffSomethingIsMissing ==
    [][last'.op = "get_historical_prices_series" =>
         LET lo   == last'.range[1]
             hi   == last'.range[2]
             miss == MissingDays(store, last'.ticker, lo, hi)
         IN  /\ (Calls(last') >= 1) <=> (miss # {})
             /\ miss = {} =>
                   /\ Calls(last') = 0
                   /\ last'.writes = 0
                   /\ store' = store
                   /\ DOMAIN last'.series = lo..hi
                   /\ \A d \in lo..hi :
                         last'.series[d] \in ClosesOn(store, last'.ticker, d)]_vars

\* a range of several days, all stored, answered without the provider
C8_Witness ==
    /\ last.op = "get_historical_prices_series"
    /\ last.range[2] > last.range[1]
    /\ Calls(last) = 0
    /\ last.writes = 0
    /\ DOMAIN last.series = last.range[1]..last.range[2]

(***************************************************************************)
(* C9, as claimed.  When some but not all dates of the requested range are *)
(* stored, the range get_historical_prices_series requests from the        *)
(* provider runs from the earliest missing date to the latest missing      *)
(* date, and covers no stored date outside that span.                      *)
(***************************************************************************)
C9_RequestCoversOnlyMissingSpan ==
    [][last'.op = "get_historical_prices_series" =>
         LET lo   == last'.range[1]
             hi   == last'.range[2]
             miss == MissingDays(store, last'.ticker, lo, hi)
         IN  (miss # {} /\ miss # lo..hi) =>
                /\ last'.request # <<>>
                /\ DayOf(last'.request[1]) = Least(miss)
                /\ DayOf(last'.request[2]) = Greatest(miss)]_vars

(***************************************************************************)
(* C10, as claimed.  After a get_historical_prices_series call in which    *)
(* the provider delivered observations, every delivered observation is in  *)
(* the store under (ticker, date), and the returned map is the union of    *)
(* the observations stored in range before the call and the delivered      *)
(* ones, the delivered close taking precedence on a date present in both.  *)
(***************************************************************************)
MergedMap(obs, st) ==
    LET lo == obs.range[1]
        hi == obs.range[2]
    IN  /\ DOMAIN obs.series = StoredDays(st, obs.ticker, lo, hi) \cup DeliveredDays(obs)
        /\ \A d \in DOMAIN obs.series :
              IF d \in DeliveredDays(obs)
              THEN obs.series[d] = DeliveredClose(obs, d)
              ELSE obs.series[d] \in ClosesOn(st, obs.ticker, d)

C10_DeliveredAreStoredAndMerged ==
    [][(last'.op = "get_historical_prices_series" /\ last'.delivered # <<>>) =>
         /\ \A d \in DeliveredDays(last') :
               ClosesOn(store', last'.ticker, d) = {DeliveredClose(last', d)}
         /\ MergedMap(last', store)]_vars

(***************************************************************************)
(* C10, amended.  After such a call every delivered observation whose      *)
(* store write succeeded is in the store under (ticker, date) with its     *)
(* close rounded to the two decimals of the close_price column; a          *)
(* delivered observation whose write failed leaves the store's rows for    *)
(* its date as they were.  The returned map is the union of the            *)
(* observations stored in range before the call and the delivered ones,    *)
(* the delivered close, unrounded, taking precedence on a date present in  *)
(* both.                                                                   *)
(***************************************************************************)
C10_WrittenAreStoredRoundedAndMerged ==
    [][(last'.op = "get_historical_prices_series" /\ last'.delivered # <<>>) =>
         /\ \A d \in DeliveredDays(last') :
               IF d \in last'.stored
               THEN ClosesOn(store', last'.ticker, d)
                       = {RoundedToCents(DeliveredClose(last', d))}
               ELSE ClosesOn(store', last'.ticker, d)
                       = ClosesOn(store, last'.ticker, d)
         /\ last'.writes = Len(last'.delivered)
         /\ MergedMap(last', store)]_vars

\* two observations delivered: one written, the other on a date that was
\* already stored, its write failed, its delivered close with a fraction of
\* a cent returned in place of the stored one
C10_Witness ==
    /\ last.op = "get_historical_prices_series"
    /\ \E d \in DeliveredDays(last), e \in DeliveredDays(last) :
          /\ d \notin last.stored
          /\ ClosesOn(store, last.ticker, d) # {}
          /\ last.series[d] = DeliveredClose(last, d)
          /\ last.series[d] \notin ClosesOn(store, last.ticker, d)
          /\ e \in last.stored
          /\ ClosesOn(store, last.ticker, e) = {RoundedToCents(DeliveredClose(last, e))}

(***************************************************************************)
(* Reading a portfolio request and the valuation it got.                   *)
(***************************************************************************)
IsSummaryCall(req, obs) ==
    /\ req # <<>>
    /\ req[1].op = "summary"
    /\ obs.op = "compute_portfolio_summary"

Returned(obs) == obs.summary # <<>>

\* the holding was priced: a current price and a non-zero purchase price
Priced(v) ==
    /\ v.current_price # <<>>
    /\ v.initial_price_per_unit # <<>>
    /\ v.initial_price_per_unit[1] # 0

ValueAtChange(cost, pct) == Mul(Float(cost), Add(Float(1), Div(pct, Float(100))))

(***************************************************************************)
(* C11, as claimed.  For a purchase price p # 0 and a current price c, the *)
(* percentage_change of a sell holding is the negation of the one of a buy *)
(* holding, as calculate_percentage_change has it (p = 100, c = 110: +10   *)
(* for buy, -10 for sell), and current_value is cost_basis * (1 +          *)
(* percentage_change / 100) with that value.                               *)
(***************************************************************************)
C11_SellChangeIsNegated ==
    [][(IsSummaryCall(pending, last') /\ Returned(last')) =>
         \A i \in DOMAIN last'.valued :
            LET h == pending[1].holdings[i]
                v == last'.valued[i]
                expected == calculate_percentage_change(v.initial_price_per_unit[1],
                                                        v.current_price[1], h.trade_type)
            IN  Priced(v) =>
                   /\ v.percentage_change = expected
                   /\ v.current_value = ValueAtChange(h.cost, expected)]_vars

(***************************************************************************)
(* C12, as claimed.  In compute_portfolio_summary a holding whose current  *)
(* price is absent, or whose purchase-date price is absent or zero, is     *)
(* valued with percentage_change = 0 and current_value = cost_basis, and   *)
(* no division by the purchase price is performed for it.                  *)
(***************************************************************************)
NoCurrentPrice(env, ticker) == ~HasData(env.current[ticker])

NoPurchasePrice(env, ticker) ==
    \/ ~HasData(env.purchase[ticker])
    \/ env.purchase[ticker][1].value[1][1].close = 0

C12_UnpricedHoldingKeepsItsCostBasis ==
    [][IsSummaryCall(pending, last') =>
         \A i \in DOMAIN pending[1].holdings :
            LET h   == pending[1].holdings[i]
                env == pending[1].env
            IN  (NoCurrentPrice(env, h.ticker) \/ NoPurchasePrice(env, h.ticker)) =>
                   /\ Returned(last')
                   /\ last'.valued[i].percentage_change = Float(0)
                   /\ last'.valued[i].current_value = Float(h.cost)
                   /\ ~last'.valued[i].divided]_vars

RECURSIVE SumFloats(_)
SumFloats(seq) == IF seq = <<>> THEN Float(0) ELSE Add(Head(seq), SumFloats(Tail(seq)))

CurrentValues(obs)    == [i \in DOMAIN obs.valued |-> obs.valued[i].current_value]
CostBases(holdings)   == [i \in DOMAIN holdings |-> Float(holdings[i].cost)]
AllocatedValues(summ) == [i \in DOMAIN summ.allocation |-> summ.allocation[i].value]

TickersOf(holdings) == {holdings[i].ticker : i \in DOMAIN holdings}

\* the name under which a ticker's holdings were reported
ReportedName(summ, ticker) ==
    summ.holdings[CHOOSE i \in DOMAIN summ.holdings : summ.holdings[i].ticker = ticker]
        .asset_info.name

FirstHolding(summ, name) ==
    CHOOSE k \in DOMAIN summ.holdings :
        /\ summ.holdings[k].asset_info.name = name
        /\ \A j \in 1..(k - 1) : summ.holdings[j].asset_info.name # name

C15_AllocationIsSortedStably ==
    [][(IsSummaryCall(pending, last') /\ Returned(last')) =>
         LET summ == last'.summary[1]
         IN  \A i \in DOMAIN summ.allocation, j \in DOMAIN summ.allocation :
                i < j =>
                   /\ ~Less(summ.allocation[i].value, summ.allocation[j].value)
                   /\ summ.allocation[i].value = summ.allocation[j].value =>
                         FirstHolding(summ, summ.allocation[i].name)
                            < FirstHolding(summ, summ.allocation[j].name)]_vars

\* two tickers of equal, non-zero value, the later one's name first in the
\* alphabet
C15_Witness ==
    /\ last.op = "compute_portfolio_summary"
    /\ Returned(last)
    /\ Len(last.summary[1].allocation) = 2
    /\ last.summary[1].allocation[1].value = last.summary[1].allocation[2].value
    /\ Less(Float(0), last.summary[1].allocation[1].value)
    /\ last.summary[1].holdings[1].ticker = "MSFT"
    /\ last.summary[1].allocation[1].name = LongName("MSFT")

(***************************************************************************)
(* C16, as claimed.  When the price or name fetch of exactly one ticker    *)
(* fails in a batch of N holdings, the valuation still returns N valued    *)
(* holdings in input order: the failed holding with its fallback values    *)
(* (no price, percentage_change 0, current_value = cost_basis, name =      *)
(* ticker), the other N - 1 valued exactly as in a batch without the       *)
(* failing holding.                                                        *)
(***************************************************************************)
NoName(env, ticker) == env.names[ticker] # Info(Some(LongName(ticker)))

FailedHoldings(req) ==
    {i \in DOMAIN req.holdings :
        \/ NoCurrentPrice(req.env, req.holdings[i].ticker)
        \/ NoName(req.env, req.holdings[i].ticker)}

Without(seq, k) == [i \in 1..(Len(seq) - 1) |-> IF i < k THEN seq[i] ELSE seq[i + 1]]

C16_OneFailedFetchLeavesTheBatchValued ==
    [][(IsSummaryCall(pending, last') /\ Cardinality(FailedHoldings(pending[1])) = 1) =>
         LET req  == pending[1]
             f    == CHOOSE i \in FailedHoldings(req) : TRUE
             h    == req.holdings[f]
             rest == compute_portfolio_summary(memory_cache, store, now,
                         asset_name_cache, Without(req.holdings, f), TRUE, req.env)
         IN  /\ Returned(last')
             /\ Len(last'.summary[1].holdings) = Len(req.holdings)
             /\ \A i \in DOMAIN req.holdings :
                   last'.summary[1].holdings[i].id = req.holdings[i].id
             /\ NoCurrentPrice(req.env, h.ticker) =>
                   /\ last'.summary[1].holdings[f].current_price = <<>>
                   /\ last'.valued[f].percentage_change = Float(0)
                   /\ last'.valued[f].current_value = Float(h.cost)
             /\ NoName(req.env, h.ticker) =>
                   last'.summary[1].holdings[f].asset_info.name = h.ticker
             /\ Returned(rest)
             /\ Without(last'.valued, f) = rest.valued
             /\ Without(last'.summary[1].holdings, f) = rest.summary[1].holdings]_vars

(***************************************************************************)
(* C17.  compute_unrealised_gain(quantity, avg_cost, current_price)        *)
(* returns position_value = quantity * current_price, cost_basis =         *)
(* quantity * avg_cost and unrealised_gain = position_value - cost_basis,  *)
(* for gains and for losses: 10, 100, 150 gives 1500, 1000, 500 and        *)
(* 5, 50, 40 gives 200, 250, -50.                                          *)
(***************************************************************************)
IsGainCall(req, obs) ==
    /\ req # <<>>
    /\ req[1].op = "gain"
    /\ obs.op = "compute_unrealised_gain"

GainOf(position_value, cost_basis, unrealised_gain) ==
    [position_value |-> position_value, cost_basis |-> cost_basis,
     unrealised_gain |-> unrealised_gain]

C17_UnrealisedGainIsValueMinusCost ==
    [][IsGainCall(pending, last') =>
         LET req == pending[1]
             res == last'.gain[1]
         IN  /\ res.position_value = req.quantity * req.current_price
             /\ res.cost_basis = req.quantity * req.avg_cost
             /\ res.unrealised_gain = res.position_value - res.cost_basis
             /\ (req.quantity = 10 /\ req.avg_cost = 100 /\ req.current_price = 150)
                   => res = GainOf(1500, 1000, 500)
             /\ (req.quantity = 5 /\ req.avg_cost = 50 /\ req.current_price = 40)
                   => res = GainOf(200, 250, -50)]_vars

\* the loss of the second test
C17_Witness ==
    /\ last.op = "compute_unrealised_gain"
    /\ last.gain = <<GainOf(200, 250, -50)>>

(***************************************************************************)
(* C18, as claimed.  compute_portfolio_summary called with only a list of  *)
(* holdings that each carry quantity, avg_cost and current_price returns   *)
(* total_value = sum of quantity * current_price, total_cost_basis = sum   *)
(* of quantity * avg_cost and total_unrealised_gain = total_value -        *)
(* total_cost_basis (A: 2 at 10 priced 15, B: 3 at 20 priced 18: 84, 80    *)
(* and 4).                                                                 *)
(***************************************************************************)
RECURSIVE SumInts(_)
SumInts(seq) == IF seq = <<>> THEN 0 ELSE Head(seq) + SumInts(Tail(seq))

C18_SummaryOfQuantitiesFromTheListAlone ==
    [][(IsSummaryCall(pending, last') /\ ~pending[1].with_service) =>
         LET hs == pending[1].holdings
             total_value == SumInts([i \in DOMAIN hs |->
                                       hs[i].quantity * hs[i].current_price])
             total_cost_basis == SumInts([i \in DOMAIN hs |->
                                            hs[i].quantity * hs[i].avg_cost])
         IN  /\ ~last'.raised
             /\ Returned(last')
             /\ last'.summary[1].total_value = total_value
             /\ last'.summary[1].total_cost_basis = total_cost_basis
             /\ last'.summary[1].total_unrealised_gain
                   = total_value - total_cost_basis]_vars

(***************************************************************************)
(* The daily series of get_portfolio_history.  The days of the series are  *)
(* the calendar days from the earliest purchase to today; what a holding   *)
(* should add to a day is read off the prices resolved for it.             *)
(***************************************************************************)
IsHistoryCall(req, obs) ==
    /\ req.op = "history"
    /\ obs.op = "get_portfolio_history"
    /\ obs.request = req.holdings
    /\ req.holdings # <<>>

SeriesDays(holdings, t) ==
    Least({DayOf(holdings[k].purchase_date) : k \in DOMAIN holdings}) .. DayOf(t)

\* what the call added for holding k on day d, if anything
Contributed(obs, k, d) ==
    IF \E i \in DOMAIN obs.daily : obs.daily[i].date = d
    THEN obs.daily[CHOOSE i \in DOMAIN obs.daily : obs.daily[i].date = d].vals[k]
    ELSE None

PricedBefore(prices, d) == {j \in DOMAIN prices : j < d}

ValueOn(holding, prices, d) ==
    Mul(Float(holding.cost), Div(Float(prices[d]), Float(prices[Least(DOMAIN prices)])))

EmittedDates(obs) == [i \in DOMAIN obs.history.history |-> obs.history.history[i].date]

\* C19: in a history that is returned, a holding without a price for a day
\* of the series but with one on an earlier day adds the value it had on
\* the latest earlier priced day; a day is in the output exactly when some
\* holding added a value to it; the emitted dates are strictly increasing
C19_UnpricedDayIsForwardFilled ==
    [][\A req \in {pending[k] : k \in DOMAIN pending} :
          (IsHistoryCall(req, last') /\ ~last'.raised) =>
              LET hs == req.holdings
                  days == SeriesDays(hs, now)
              IN  /\ \A k \in DOMAIN hs : \A d \in days :
                         LET prices == last'.valued[k].prices
                         IN  (d \notin DOMAIN prices /\ PricedBefore(prices, d) # {}) =>
                                 Contributed(last', k, d) =
                                     Some(ValueOn(hs[k], prices,
                                                  Greatest(PricedBefore(prices, d))))
                  /\ \A d \in days :
                         (d \in Elements(EmittedDates(last'))) <=>
                             \E k \in DOMAIN hs : Contributed(last', k, d) # None
                  /\ Elements(EmittedDates(last')) \subseteq days
                  /\ Ascending(EmittedDates(last'))]_vars

\* C20: in a history that is returned, the base price of a holding is the
\* price of the earliest resolved date, which is not before its purchase;
\* the holding adds nothing before that date, exactly its cost basis on
\* that date, and cost * price / base price on every later priced day
C20_BasePriceAndValueOnPricedDays ==
    [][\A req \in {pending[k] : k \in DOMAIN pending} :
          (IsHistoryCall(req, last') /\ ~last'.raised) =>
              LET hs == req.holdings
                  days == SeriesDays(hs, now)
              IN  \A k \in DOMAIN hs :
                     LET prices == last'.valued[k].prices
                     IN  IF DOMAIN prices = {}
                         THEN /\ last'.valued[k].base_price = None
                              /\ \A d \in days : Contributed(last', k, d) = None
                         ELSE LET first == Least(DOMAIN prices)
                              IN  /\ last'.valued[k].base_price = Some(prices[first])
                                  /\ DayOf(hs[k].purchase_date) <= first
                                  /\ \A d \in days :
                                        /\ d < first =>
                                              Contributed(last', k, d) = None
                                        /\ d = first =>
                                              Contributed(last', k, d) =
                                                  Some(Float(hs[k].cost))
                                        /\ (d > first /\ d \in DOMAIN prices) =>
                                              Contributed(last', k, d) =
                                                  Some(ValueOn(hs[k], prices, d))]_vars

(***************************************************************************)
(* The percentage of a point of the daily series.                          *)
(***************************************************************************)
\* the exact total of day d: what the holdings added to it
DayTotal(obs, d) ==
    LET vals == obs.daily[CHOOSE i \in DOMAIN obs.daily : obs.daily[i].date = d].vals
    IN  SumFloats([k \in DOMAIN vals |-> IF vals[k] = None THEN Float(0) ELSE vals[k][1]])

\* the cost basis of the holdings held on the first day of the series
FirstDayCost(holdings) ==
    LET first == Least({DayOf(holdings[k].purchase_date) : k \in DOMAIN holdings})
    IN  SumFloats([k \in DOMAIN holdings |->
                      IF DayOf(holdings[k].purchase_date) = first
                      THEN Float(holdings[k].cost) ELSE Float(0)])

ChangeAgainst(total, S) ==
    IF S = Float(0) THEN Float(0)
    ELSE RoundTo(Mul(Div(Sub(total, S), S), Float(100)), Hundredth)

\* C21: in a history that is returned, every point has percentage_change =
\* (total of the day - S) / S * 100, to two decimals, where S is the cost
\* basis of the holdings held on the first day of the series, and 0 when
\* S is 0
C21_PointChangeIsRelativeToFirstDayCost ==
    [][\A req \in {pending[k] : k \in DOMAIN pending} :
          (IsHistoryCall(req, last') /\ ~last'.raised) =>
              \A i \in DOMAIN last'.history.history :
                  LET point == last'.history.history[i]
                  IN  point.percentage_change =
                          ChangeAgainst(DayTotal(last', point.date),
                                        FirstDayCost(req.holdings))]_vars

(***************************************************************************)
(* The intraday series.  The total of a timestamp is recomputed from the   *)
(* bars and the base prices the call resolved.                             *)
(***************************************************************************)
IsIntradayCall(req, obs) ==
    /\ req.op = "intraday"
    /\ obs.op = "get_portfolio_intraday_history"
    /\ obs.request = req.holdings
    /\ ~obs.raised
    /\ obs.history.history # <<>>

IntradayTotalAt(holdings, valued, ts) ==
    SumFloats([k \in DOMAIN holdings |->
                  IF ts \in DOMAIN valued[k].prices /\ valued[k].base_price # None
                  THEN Mul(Float(holdings[k].cost),
                           Div(Float(valued[k].prices[ts]),
                               Float(valued[k].base_price[1])))
                  ELSE Float(0)])

\* the totals of the emitted points, in their order
PointTotals(req, obs) ==
    [i \in DOMAIN obs.history.history |->
        IntradayTotalAt(req.holdings, obs.valued, obs.history.history[i].date)]

\* the first point up to i whose total is not zero, or 0 if there is none
FirstNonZero(totals, i) ==
    IF \E j \in 1..i : totals[j] # Float(0)
    THEN CHOOSE j \in 1..i : /\ totals[j] # Float(0)
                             /\ \A h \in 1..(j - 1) : totals[h] = Float(0)
    ELSE 0

BenchmarkDates(obs) ==
    [i \in DOMAIN obs.history.benchmark_history |->
        obs.history.benchmark_history[i].date]

InIndex(obs, d) == d \in DOMAIN obs.index

\* the dates of the portfolio history that have an index close, in order
SharedDates(obs) ==
    LET Shared(d) == InIndex(obs, d)
    IN  SelectSeq(EmittedDates(obs), Shared)

\* C23: in a history that is returned, benchmark_history has exactly the
\* dates that are both in the portfolio history and in the index series
\* that was fetched, in the order of the portfolio history, none twice
C23_BenchmarkIsTheInnerJoin ==
    [][\A req \in {pending[k] : k \in DOMAIN pending} :
          (IsHistoryCall(req, last') /\ ~last'.raised) =>
              /\ BenchmarkDates(last') = SharedDates(last')
              /\ \A i, j \in DOMAIN BenchmarkDates(last') :
                    i # j => BenchmarkDates(last')[i] # BenchmarkDates(last')[j]]_vars

\* C24: in a history that is returned, if the portfolio history and the
\* index series share a date then benchmark_history is not empty, its
\* first point has percentage_change 0, and every point has the change of
\* the index close of its date against the close of the first shared date
C24_BenchmarkBaseIsFirstSharedDate ==
    [][\A req \in {pending[k] : k \in DOMAIN pending} :
          (IsHistoryCall(req, last') /\ ~last'.raised /\ SharedDates(last') # <<>>) =>
              LET bh   == last'.history.benchmark_history
                  base == Float(last'.index[SharedDates(last')[1]])
              IN  /\ bh # <<>>
                  /\ bh[1].percentage_change = Float(0)
                  /\ \A i \in DOMAIN bh :
                        /\ InIndex(last', bh[i].date)
                        /\ bh[i].percentage_change =
                               ChangeAgainst(Float(last'.index[bh[i].date]), base)]_vars

(***************************************************************************)
(* The index fetch fails.                                                  *)
(***************************************************************************)
IndexFails(req) == req.env.sp500.kind \in {"raise", "empty"}

WorkingIndexAnswers == {a \in IndexAnswers : a.kind = "data"}

\* what the same request gives in the same state when the index provider
\* answers a
WithIndex(req, a) ==
    Reported(get_portfolio_history(memory_cache, store, now, req.holdings,
                                   [req.env EXCEPT !.sp500 = a]))

\* C25: when the index fetch raises or returns no rows, get_portfolio_history
\* fails only where it fails with a working index provider too, and where
\* it returns it returns the portfolio history of the working provider
\* together with an empty benchmark_history.
C25_FailedIndexLeavesThePortfolioHistory ==
    [][\A req \in {pending[k] : k \in DOMAIN pending} :
          (IsHistoryCall(req, last') /\ req = pending[1] /\ IndexFails(req)) =>
              \A a \in WorkingIndexAnswers :
                  /\ last'.raised = WithIndex(req, a).raised
                  /\ ~last'.raised =>
                        /\ last'.history.portfolio_id =
                               WithIndex(req, a).history.portfolio_id
                        /\ last'.history.history = WithIndex(req, a).history.history
                        /\ last'.history.benchmark_history = <<>>]_vars

C25_Witness ==
    /\ last.op = "get_portfolio_history"
    /\ ~last.raised
    /\ \E i \in DOMAIN last.trace : last.trace[i] = <<"call", "index">>
    /\ last.index = <<>>
    /\ Len(last.history.history) >= 2
    /\ last.history.benchmark_history = <<>>

(***************************************************************************)
(* Two requests for the same span.                                         *)
(***************************************************************************)
FetchedIndex(obs) == \E i \in DOMAIN obs.trace : obs.trace[i] = <<"call", "index">>

\* the request about to be served repeats the one just answered, for the
\* same span of dates and less than an hour later, and the first fetch of
\* the index did not raise
RepeatsWithinTheHour(req) ==
    /\ IsHistoryCall(req, last)
    /\ ~last.raised
    /\ FetchedIndex(last)
    /\ req.env.sp500.kind # "raise"
    /\ DateOf(last.range[2]) = DateOf(now)
    /\ now - last.range[2] < BenchmarkTTL

\* C26: of two get_portfolio_history requests for the same date span issued
\* less than one hour apart only the first fetches the index series from the
\* benchmark provider; the second is served from the cache.
C26_SecondRequestIsServedFromTheCache ==
    [][(pending # <<>> /\ RepeatsWithinTheHour(pending[1])
        /\ IsHistoryCall(pending[1], last')) =>
           /\ ~FetchedIndex(last')
           /\ last'.index = last.index]_vars

(***************************************************************************)
(* The price_update events.                                                *)
(***************************************************************************)
\* C27: a get_current_price call that obtains its price from the provider
\* publishes exactly one price_update event with that ticker and price,
\* whether a request or the background refresh task makes it; a call served
\* from the in-memory cache or the store publishes none.
C27_ProviderPricePublishesOneEvent ==
    [][last'.op = "get_current_price" =>
         IF FromProvider(last')
         THEN /\ Len(last'.events) = 1
              /\ last'.events[1].type = "price_update"
              /\ last'.events[1].ticker = last'.ticker
              /\ last'.events[1].price = last'.ret[1]
         ELSE last'.events = <<>>]_vars

(***************************************************************************)
(* Asset names.                                                            *)
(***************************************************************************)
IsNameCall(obs) == obs.op = "get_asset_name"

\* the metadata lookup failed or had no long name
NoLongName(answer) == answer.kind # "info" \/ answer.longName = None

ReadOps == {"get_current_price", "get_historical_prices", "get_intraday_prices",
            "get_asset_name"}

\* the read was answered from the process-local cache alone
ServedFromMemory(obs) == obs.tiers = <<"memory">>

\* C29: after clear_memory_cache every bucket of the process-local cache is
\* empty: the next read of any key of the current-price, historical,
\* intraday and asset-name buckets is a miss that goes to the lower tier.
C29_ClearEmptiesEveryBucket ==
    [][last.op = "clear_memory_cache" =>
         /\ memory_cache = <<>>
         /\ asset_name_cache = <<>>
         /\ last'.op \in ReadOps => ~ServedFromMemory(last')]_vars

(***************************************************************************)
(* One observation per (ticker, date).                                     *)
(***************************************************************************)
KeyRows(st, ticker, d) == {r \in st : r.ticker = ticker /\ r.date = MinTime(d)}

OnePerKey(st) ==
    \A r \in st, q \in st : (r.ticker = q.ticker /\ r.date = q.date) => r = q

IsStoreCall(obs) == obs.op \in {"store_price", "store_bulk_prices"}

\* the rows of (ticker, d) after the writes of a call, given the rows before
\* it: untouched when the call wrote nothing under the key, else one row
\* with the last close written and the last volume supplied, if any
RowsAfter(st, obs, ticker, d) ==
    LET Hit(price_data) == price_data.date = MinTime(d) /\ d \notin obs.missing
        written   == IF ticker = obs.ticker THEN SelectSeq(obs.request, Hit) ELSE <<>>
        Supplied(price_data) == price_data.volume # None
        volumes   == SelectSeq(written, Supplied)
        old       == KeyRows(st, ticker, d)
    IN  IF written = <<>>
        THEN old
        ELSE {[ticker |-> ticker, date |-> MinTime(d),
               close_price |-> Numeric2(written[Len(written)].close),
               volume |-> IF volumes # <<>> THEN volumes[Len(volumes)].volume
                          ELSE IF old # {} THEN (CHOOSE r \in old : TRUE).volume
                          ELSE None]}

\* C30: after any sequence of store_price and store_bulk_prices calls the
\* store holds at most one observation per (ticker, date): a write under a
\* key that exists replaces the row's close price, and its volume only when
\* a volume is supplied, instead of adding a row, and the rows of every
\* other key are unchanged.
C30_OneObservationPerKey ==
    [][IsStoreCall(last') =>
         /\ OnePerKey(store')
         /\ \A ticker \in Tickers, d \in StoreDays :
               KeyRows(store', ticker, d) = RowsAfter(store, last', ticker, d)]_vars

\* a bulk write has written one date twice, first with a volume and then
\* without, beside the rows of other keys
C30_Witness ==
    /\ last.op = "store_bulk_prices"
    /\ last.missing = {}
    /\ Len(last.request) = 2
    /\ last.request[1].date = last.request[2].date
    /\ last.request[1].volume # None
    /\ last.request[2].volume = None
    /\ Cardinality(store) >= 3
    /\ \E r \in store : /\ r.ticker = last.ticker
                        /\ r.date = last.request[1].date
                        /\ r.volume = last.request[1].volume
    /\ \E r \in store : r.close_price = Numeric2(1504)

(***************************************************************************)
(* Store writes that fail.                                                 *)
(***************************************************************************)
DaysDelivered(obs) == {DateOf(obs.delivered[i].date) : i \in DOMAIN obs.delivered}

\* the rows of the ticker on the given days are what they were
RowsKept(st, st2, ticker, days) ==
    \A d \in days : KeyRows(st2, ticker, d) = KeyRows(st, ticker, d)

\* every observation delivered on one of the days is the row of its key
RowsWritten(st2, obs, days) ==
    \A i \in DOMAIN obs.delivered :
        DateOf(obs.delivered[i].date) \in days =>
            KeyRows(st2, obs.ticker, DateOf(obs.delivered[i].date)) =
                {[ticker |-> obs.ticker, date |-> MinTime(DateOf(obs.delivered[i].date)),
                  close_price |-> Numeric2(obs.delivered[i].close)]}

\* C31: a store write that fails is rolled back: store_price returns False
\* without raising and leaves the store as it was; a get_current_price or
\* get_historical_prices_series request whose write fails still returns the
\* price data it fetched; store_bulk_prices stores the remaining
\* observations and returns the count of the writes that succeeded.
C31_FailedWriteIsRolledBackAndBypassed ==
    [][/\ (last'.op = "store_price" /\ last'.stored = {}) =>
             ~last'.raised /\ store' = store
       /\ (last'.op = "get_current_price" /\ last'.writes = 1 /\ last'.stored = {}) =>
             /\ ~last'.raised
             /\ last'.ret = Some(last'.delivered[1])
             /\ store' = store
       /\ (last'.op = "get_historical_prices_series" /\ last'.delivered # <<>>) =>
             /\ ~last'.raised
             /\ \A i \in DOMAIN last'.delivered :
                   /\ DateStr(last'.delivered[i].date) \in DOMAIN last'.series
                   /\ last'.series[DateStr(last'.delivered[i].date)] =
                          last'.delivered[i].close
             /\ RowsKept(store, store', last'.ticker,
                         DaysDelivered(last') \ last'.stored)
             /\ RowsWritten(store', last', last'.stored)
       /\ last'.op = "store_bulk_prices" =>
             /\ ~last'.raised
             /\ last'.stored = DaysDelivered(last') \ last'.missing
             /\ last'.ret = Some(Cardinality({i \in DOMAIN last'.delivered :
                                 DateOf(last'.delivered[i].date) \notin last'.missing}))
             /\ RowsKept(store, store', last'.ticker, last'.missing)
             /\ RowsWritten(store', last', last'.stored)]_vars

\* a bulk write of two observations whose first write failed and whose
\* second was stored
C31_Witness ==
    /\ last.op = "store_bulk_prices"
    /\ Len(last.delivered) = 2
    /\ last.missing = {DateOf(last.delivered[1].date)}
    /\ last.ret = Some(1)
    /\ KeyRows(store, last.ticker, DateOf(last.delivered[1].date)) = {}
    /\ KeyRows(store, last.ticker, DateOf(last.delivered[2].date)) # {}

(***************************************************************************)
(* Concurrent calls of get_current_price.                                  *)
(***************************************************************************)
IsWorker(w) == w.op = "get_current_price" /\ "pc" \in DOMAIN w

WellFormed(entry) == DOMAIN entry = {"data", "timestamp"} /\ entry.data \in Prices

\* C32: two workers that call get_current_price at once for a ticker whose
\* in-memory entry has expired both complete without an error, and when
\* both have returned, the table holds one well-formed entry for the key.
C32_ConcurrentCallsComplete ==
    \A i \in DOMAIN pending :
        IsWorker(pending[i]) =>
            /\ pending[i].pc # "raised"
            /\ (\A j \in DOMAIN pending : pending[j].pc = "done") =>
                   /\ CurrentKey(pending[i].ticker) \in DOMAIN memory_cache
                   /\ WellFormed(memory_cache[CurrentKey(pending[i].ticker)])

(***************************************************************************)
(* The price on the purchase date.                                         *)
(***************************************************************************)
\* the provider calls the current price of the holding takes
CurrentPriceCalls(holding, env) ==
    Calls(get_current_price(memory_cache, store, now, holding.ticker,
                            env.current[holding.ticker], TRUE))

\* C33: the valuation resolves the purchase-date price through the store:
\* when (ticker, purchase_date) is stored no provider call is made for it,
\* and a purchase-date price obtained from the provider is written to the
\* store, so that the next valuation of the holding makes no provider call
\* for it.
C33_PurchasePriceGoesThroughTheStore ==
    [][(IsSummaryCall(pending, last') /\ Len(pending[1].holdings) = 1) =>
         LET holding == pending[1].holdings[1]
             day     == DateOf(holding.purchase_date)
         IN  /\ KeyRows(store, holding.ticker, day) # {} =>
                   Calls(last') = CurrentPriceCalls(holding, pending[1].env)
             /\ (Returned(last') /\ last'.valued[1].initial_price_per_unit # None) =>
                   KeyRows(store', holding.ticker, day) # {}]_vars

(***************************************************************************)
(* The batch over the holdings.                                            *)
(***************************************************************************)
\* C34: a batch over a list of holdings has at most 10 fetch tasks in
\* flight at any moment and returns only after the task of every holding
\* has finished, whether it succeeded or failed: a failure does not end
\* the batch early.
C34_BatchIsBoundedAndJoinsEveryTask ==
    \A k \in DOMAIN pending :
        pending[k].op = "batch" =>
            /\ Cardinality(pending[k].in_flight) <= 10
            /\ pending[k].returned =>
                   pending[k].finished = DOMAIN pending[k].holdings

(***************************************************************************)
(* Ranges with a day on which the market is closed.                        *)
(***************************************************************************)
IsSeriesCall(obs) == obs.op = "get_historical_prices_series"

RangeDays(obs) == obs.range[1]..obs.range[2]

HasRow(st, ticker, d) == KeyRows(st, ticker, d) # {}

AsksProvider(obs) == Calls(obs) > 0

\* C35 as stated: every call of get_historical_prices_series over a range
\* that contains a non-trading day asks the provider, whatever the store
\* holds.
C35_NonTradingDayAlwaysRefetched ==
    [][(IsSeriesCall(last') /\ RangeDays(last') \cap NonTradingDays # {})
          => AsksProvider(last')]_vars

\* C35 amended: a call of get_historical_prices_series over a range with a
\* calendar day that has no row in the store asks the provider, and a
\* non-trading day without a row is still without one after the call; a
\* call over a range whose every day has a row is served from the store
\* alone.
C35_UnstoredDayIsRefetched ==
    [][IsSeriesCall(last') =>
          /\ AsksProvider(last') <=>
                \E d \in RangeDays(last') : ~HasRow(store, last'.ticker, d)
          /\ \A d \in RangeDays(last') \cap NonTradingDays :
                ~HasRow(store, last'.ticker, d) => ~HasRow(store', last'.ticker, d)]_vars

\* a call over a range whose trading days are all stored, asking the
\* provider for the non-trading day once more
C35_Witness ==
    /\ IsSeriesCall(last)
    /\ RangeDays(last) \ NonTradingDays # {}
    /\ Len(last.missing) > 0
    /\ \A i \in DOMAIN last.missing : last.missing[i] \in NonTradingDays
    /\ AsksProvider(last)
    /\ \A d \in RangeDays(last) :
          HasRow(store, last.ticker, d) <=> d \notin NonTradingDays

(***************************************************************************)
(* The current price on a day whose close is already in the store.         *)
(***************************************************************************)
StoredToday(st, ticker, t) == HasRow(st, ticker, DateOf(t))

FreshEntry(mc, ticker, t) ==
    /\ CurrentKey(ticker) \in DOMAIN mc
    /\ t - mc[CurrentKey(ticker)].timestamp < CurrentPriceTTL

\* C36 as stated: once the store holds an observation for (ticker, today),
\* a get_current_price call of that day makes no provider call and returns
\* the first value stored that day, as long as the row is there.
C36_StoredPriceSticksForTheDay ==
    [][(last'.op = "get_current_price" /\ DateOf(now) = FirstDay
          /\ StoredToday(store, last'.ticker, now))
          => /\ Calls(last') = 0
             /\ last'.ret = Some(StoredFirst)]_vars

\* C36 amended: once the store holds an observation for (ticker, today), a
\* get_current_price call of that day makes no provider call; it returns
\* the value of the in-memory entry when that entry is younger than 15
\* minutes, and otherwise the close the row holds at that moment, with
\* which it re-populates the memory cache.
C36_StoredDayNeverReachesProvider ==
    [][(last'.op = "get_current_price" /\ StoredToday(store, last'.ticker, now))
          => /\ Calls(last') = 0
             /\ IF FreshEntry(memory_cache, last'.ticker, now)
                THEN last'.ret = Some(memory_cache[CurrentKey(last'.ticker)].data)
                ELSE /\ last'.ret = get_cached_price(store, last'.ticker, DateOf(now))
                     /\ CurrentKey(last'.ticker) \in DOMAIN memory_cache'
                     /\ Some(memory_cache'[CurrentKey(last'.ticker)].data) = last'.ret]_vars

\* the entry has expired, today's row has been rewritten, and the call
\* returns the row's close without asking the provider
C36_Witness ==
    /\ last.op = "get_current_price"
    /\ last.tiers = <<"memory", "store">>
    /\ last.log = "EXPIRED"
    /\ Calls(last) = 0
    /\ last.ret # Some(StoredFirst)
    /\ last.ret = get_cached_price(store, last.ticker, DateOf(now))

(***************************************************************************)
(* Two writers of one key.                                                 *)
(***************************************************************************)
IsWriter(w) == w.op = "store_price"

SameNewKey(a, b) ==
    /\ a.ticker = b.ticker /\ a.price_date = b.price_date
    /\ a.close_price # b.close_price
    /\ a.is_new /\ b.is_new

\* C37: when two workers call store_price concurrently for the same
\* (ticker, date) that is not yet stored, with different close prices, both
\* calls return True, the store ends with exactly one row for the key, and
\* its close price is the one written last.
C37_ConcurrentUpsertsBothSucceed ==
    \A i \in DOMAIN pending, j \in DOMAIN pending :
        (/\ i # j /\ IsWriter(pending[i]) /\ IsWriter(pending[j])
         /\ pending[i].pc = "done" /\ pending[j].pc = "done"
         /\ SameNewKey(pending[i], pending[j])
         /\ pending[i].order < pending[j].order)
        => /\ pending[i].ret = Some(TRUE)
           /\ pending[j].ret = Some(TRUE)
           /\ KeyRows(store, pending[j].ticker, pending[j].price_date) =
                 {[ticker |-> pending[j].ticker,
                   date |-> MinTime(pending[j].price_date),
                   close_price |-> Numeric2(pending[j].close_price)]}

(***************************************************************************)
(* The keys of the price store.                                            *)
(***************************************************************************)
Keys(st) == {<<r.ticker, r.date>> : r \in st}

WritingCalls ==
    {"get_current_price", "get_historical_prices_series",
     "get_portfolio_history", "get_portfolio_intraday_history",
     "store_price", "store_bulk_prices"}

RemovingCalls == {"cleanup_old_cache", "invalidate_cache"}

\* C38: across any sequence of get_current_price,
\* get_historical_prices_series, get_portfolio_history,
\* get_portfolio_intraday_history, store_price and store_bulk_prices calls
\* the set of (ticker, date) keys of the store never shrinks; a key is
\* removed only by cleanup_old_cache and invalidate_cache.
C38_KeysNeverShrink ==
    [][/\ last'.op \in WritingCalls => Keys(store) \subseteq Keys(store')
       /\ ~(Keys(store) \subseteq Keys(store')) => last'.op \in RemovingCalls]_vars

\* a write to a stored key has failed and the key is still there, after a
\* sweep or an invalidation has removed other keys
C38_Witness ==
    /\ last.op = "store_price"
    /\ last.stored = {}
    /\ HasRow(store, last.ticker, last.request[1])
    /\ \E ticker \in Tickers, d \in Days : ~HasRow(store, ticker, d)
    /\ pending = <<>>

(***************************************************************************)
(* Gaps in the five-minute bars of a holding.                              *)
(***************************************************************************)
\* the latest bar of a holding at or before a timestamp
LastBarAt(prices, ts) ==
    LET earlier == {u \in DOMAIN prices : u <= ts}
    IN  IF earlier = {} THEN None
        ELSE Some(prices[CHOOSE u \in earlier : \A v \in earlier : v <= u])

\* the total at a timestamp with every holding at its last known value
FilledTotalAt(holdings, valued, ts) ==
    SumFloats([k \in DOMAIN holdings |->
                  IF LastBarAt(valued[k].prices, ts) # None
                     /\ valued[k].base_price # None
                  THEN Mul(Float(holdings[k].cost),
                           Div(Float(LastBarAt(valued[k].prices, ts)[1]),
                               Float(valued[k].base_price[1])))
                  ELSE Float(0)])

\* C39: in the intraday series a holding that has no price at a timestamp
\* but had one at an earlier timestamp of the day contributes its last
\* known value to the total of that timestamp, so that a gap in one
\* holding's bars does not lower the total.
C39_GapsAreForwardFilled ==
    [][\A req \in {pending[k] : k \in DOMAIN pending} :
          IsIntradayCall(req, last') =>
              \A i \in DOMAIN last'.history.history :
                  last'.history.history[i].value =
                      RoundTo(FilledTotalAt(req.holdings, last'.valued,
                                            last'.history.history[i].date),
                              Cent)]_vars

(***************************************************************************)
(* The daily series when no price moves.                                   *)
(***************************************************************************)
\* every value a holding adds to a day is its cost basis: its price of the
\* day, fetched or carried forward, equals its base price
FlatPrices(req, obs) ==
    \A i \in DOMAIN obs.daily : \A k \in DOMAIN obs.daily[i].vals :
        obs.daily[i].vals[k] # None =>
            obs.daily[i].vals[k][1] = Float(req.holdings[k].cost)

\* C40: in get_portfolio_history, if every holding's price on every day
\* equals that holding's base price, every emitted point has
\* percentage_change 0, also when the holdings have different purchase
\* dates.
C40_FlatPricesGiveZeroChange ==
    [][\A req \in {pending[k] : k \in DOMAIN pending} :
          (IsHistoryCall(req, last') /\ ~last'.raised /\ FlatPrices(req, last'))
              => \A i \in DOMAIN last'.history.history :
                    last'.history.history[i].percentage_change = Float(0)]_vars

====
